---- MODULE Spec2Model ----
(***************************************************************************)
(* A model of mini-git's commit-graph walks, three-way tree merge, merge   *)
(* command and directory-copy push, translated from src/src/commands.      *)
(*                                                                         *)
(* Hashes are modelled as an injective encoding of the hashed content      *)
(* (SHA-256 is taken to be collision free): every hash is a tuple          *)
(* <<"sha", content>> and the absent hash (Option::None, a missing map     *)
(* key, a missing ref file) is the empty tuple.                            *)
(***************************************************************************)
EXTENDS Integers, Sequences, FiniteSets, TLC

VARIABLES
    blobs,      \* repo -> set of blob contents stored under objects/
    trees,      \* repo -> set of Tree objects [hash, entries]
    commits,    \* repo -> set of Commit objects [hash, parent, tree, author, message]
    heads,      \* repo -> (branch -> commit hash or None): refs/heads/<branch>
    tracking,   \* repo -> (remote name -> (branch -> hash or None)): refs/remotes/<r>/<b>
    HEAD,       \* repo -> branch name HEAD is symbolic to
    index,      \* repo -> (path -> blob hash or None): the staged entries
    work,       \* repo -> (path -> file content or NoFile): files under work_dir
    config,     \* repo -> (remote name -> url or NoUrl): [remote "<name>"] sections
    stash,      \* repo -> the stash file: a list of entries, most recent first
    clock,      \* the system clock Utc::now() reads
    last,       \* what the last command did and reported
    fin,        \* inputs of the pure function under check
    fout        \* its outputs

vars == <<blobs, trees, commits, heads, tracking, HEAD, index, work, config,
          stash, clock, last, fin, fout>>

repoVars == <<blobs, trees, commits, heads, tracking, HEAD, index, work, config,
              stash, clock, last>>

-----------------------------------------------------------------------------
(* Bounds *)

\* File contents are the numbers 1..NumBlobs.
NumBlobs == 3

\* Commits an object store holds at most.
MaxCommits == 4

\* Entries the stash list holds at most.
MaxStash == 2

\* The system clock runs from 1 to MaxTime.
MaxTime == 3

\* Characters a diffed file content holds at most.
MaxLen == 3

-----------------------------------------------------------------------------
(* Values *)

Paths == {"x", "y"}

Contents == 1 .. NumBlobs

None == <<>>

NoFile == 0

Branches == {"main", "b"}

Repos == {"local", "remote"}

RemoteNames == {"origin", "up"}

DefaultAuthor == "Mini Git <minigit@example.com>"

Authors == {"Ann"}

\* The author option when -a is not given.
NoAuthor == ""

hash_content(bytes) == <<"sha", bytes>>

BlobHashes == {hash_content(c) : c \in Contents}

\* A tree's entries: every path maps to the blob hash of its entry, or to
\* None when the map has no such key. Entries carry mode "100644" and
\* is_file = true throughout (the only kind the program creates).
EntryMaps == [Paths -> BlobHashes \cup {None}]

Keys(entries) == {p \in DOMAIN entries : entries[p] # None}

EmptyEntries == [p \in Paths |-> None]

\* All orders in which a map's keys can be iterated over.
KeyOrders(entries) ==
    {s \in UNION {[1 .. n -> Keys(entries)] : n \in {Cardinality(Keys(entries))}} :
        \A i, j \in DOMAIN s : i # j => s[i] # s[j]}

\* serde_json::to_vec of a HashMap: the entries in the map's iteration order.
Serialize(entries, order) == [i \in DOMAIN order |-> <<order[i], entries[order[i]]>>]

\* The order the commit command's canonical encoding uses.
SortedOrder(entries) ==
    CHOOSE s \in KeyOrders(entries) :
        \A i, j \in DOMAIN s : (i < j /\ s[i] = "y") => s[j] # "x"

-----------------------------------------------------------------------------
(* Three-way merge of tree entries: merge.rs, perform_three_way_merge *)

\* One iteration of the loop over all_paths: the match on
\* (base_entry, our_entry, their_entry), arms tried in source order.
merge_path(b, o, t) ==
    \* File unchanged in both branches
    IF b # None /\ o # None /\ t # None /\ o = b /\ t = b
        THEN [entry |-> b, conflict |-> FALSE]
    \* File changed only in our branch
    ELSE IF b # None /\ o # None /\ t # None /\ t = b
        THEN [entry |-> o, conflict |-> FALSE]
    \* File changed only in their branch
    ELSE IF b # None /\ o # None /\ t # None /\ o = b
        THEN [entry |-> t, conflict |-> FALSE]
    \* File added in our branch only
    ELSE IF b = None /\ o # None /\ t = None
        THEN [entry |-> o, conflict |-> FALSE]
    \* File added in their branch only
    ELSE IF b = None /\ o = None /\ t # None
        THEN [entry |-> t, conflict |-> FALSE]
    \* File deleted in our branch
    ELSE IF b # None /\ o = None /\ t # None /\ t = b
        THEN [entry |-> None, conflict |-> FALSE]
    \* File deleted in their branch
    ELSE IF b # None /\ o # None /\ t = None /\ o = b
        THEN [entry |-> None, conflict |-> FALSE]
    \* Conflict: both branches modified the file differently
    ELSE IF b # None /\ o # None /\ t # None /\ o # t
        THEN [entry |-> o, conflict |-> TRUE]
    \* Other cases: our_entry.or(their_entry)
    ELSE [entry |-> IF o # None THEN o ELSE t, conflict |-> FALSE]

\* The conflict arm inserting their.clone() instead of our.clone().
merge_entries_theirs_on_conflict(base, ours, theirs) ==
    LET all_paths == Keys(base) \cup Keys(ours) \cup Keys(theirs)
        at(p) == merge_path(base[p], ours[p], theirs[p])
    IN  [entries |-> [p \in Paths |-> IF p \notin all_paths THEN None
                                      ELSE IF at(p).conflict THEN theirs[p]
                                      ELSE at(p).entry],
         notices |-> {p \in all_paths : at(p).conflict}]

\* The two deletion arms inserting base.clone() instead of nothing.
merge_entries_keeps_deleted(base, ours, theirs) ==
    LET all_paths == Keys(base) \cup Keys(ours) \cup Keys(theirs)
        at(p) == merge_path(base[p], ours[p], theirs[p])
    IN  [entries |-> [p \in Paths |-> IF p \notin all_paths THEN None
                                      ELSE IF at(p).entry = None THEN base[p]
                                      ELSE at(p).entry],
         notices |-> {p \in all_paths : at(p).conflict}]

\* The conflict arm without its guard `our.hash != their.hash`.
merge_entries_unguarded_conflict(base, ours, theirs) ==
    LET all_paths == Keys(base) \cup Keys(ours) \cup Keys(theirs)
        at(p) == merge_path(base[p], ours[p], theirs[p])
    IN  [entries |-> [p \in Paths |-> IF p \in all_paths THEN at(p).entry ELSE None],
         notices |-> {p \in all_paths :
                         \/ at(p).conflict
                         \/ /\ base[p] # None /\ ours[p] # None /\ theirs[p] # None
                            /\ ours[p] # base[p] /\ theirs[p] # base[p]}]

\* The last arm inserting their_entry.or(our_entry).
merge_entries_fallback_theirs(base, ours, theirs) ==
    LET all_paths == Keys(base) \cup Keys(ours) \cup Keys(theirs)
        at(p) == merge_path(base[p], ours[p], theirs[p])
    IN  [entries |-> [p \in Paths |-> IF p \notin all_paths THEN None
                                      ELSE IF base[p] = None /\ ours[p] # None /\ theirs[p] # None
                                          THEN theirs[p]
                                      ELSE at(p).entry],
         notices |-> {p \in all_paths : at(p).conflict}]

\* The loop over all_paths (the union of the three trees' keys): the merged
\* entries and the paths a CONFLICT notice is printed for.
merge_entries(base, ours, theirs) ==
    LET all_paths == Keys(base) \cup Keys(ours) \cup Keys(theirs)
        at(p) == merge_path(base[p], ours[p], theirs[p])
    IN  [entries |-> [p \in Paths |-> IF p \in all_paths THEN at(p).entry ELSE None],
         notices |-> {p \in all_paths : at(p).conflict}]

-----------------------------------------------------------------------------
(* The specification of the three-way merge as a function of three trees *)

InitMerge ==
    /\ blobs = [r \in Repos |-> {}]
    /\ trees = [r \in Repos |-> {}]
    /\ commits = [r \in Repos |-> {}]
    /\ heads = [r \in Repos |-> [b \in Branches |-> None]]
    /\ tracking = [r \in Repos |-> [n \in RemoteNames |-> [b \in Branches |-> None]]]
    /\ HEAD = [r \in Repos |-> "main"]
    /\ index = [r \in Repos |-> EmptyEntries]
    /\ work = [r \in Repos |-> [p \in Paths |-> NoFile]]
    /\ config = [r \in Repos |-> [n \in RemoteNames |-> ""]]
    /\ stash = [r \in Repos |-> <<>>]
    /\ clock = 1
    /\ last = [op |-> "none"]
    /\ fin \in [base : EntryMaps, ours : EntryMaps, theirs : EntryMaps]
    /\ fout = [done |-> FALSE, merged |-> merge_entries(EmptyEntries, EmptyEntries, EmptyEntries),
               swapped |-> merge_entries(EmptyEntries, EmptyEntries, EmptyEntries)]

\* Merge (base, ours, theirs) and, for comparison, (base, theirs, ours).
RunMerge ==
    /\ ~fout.done
    /\ fout' = [done |-> TRUE,
                merged |-> merge_entries(fin.base, fin.ours, fin.theirs),
                swapped |-> merge_entries(fin.base, fin.theirs, fin.ours)]
    /\ UNCHANGED <<repoVars, fin>>

NextMerge == RunMerge

SpecMerge == InitMerge /\ [][NextMerge]_vars

-----------------------------------------------------------------------------
(* The object store's commits: object_store.load_commit *)

HasCommit(store, h) == \E c \in store : c.hash = h

LoadCommit(store, h) == CHOOSE c \in store : c.hash = h

NoCommit ==
    [hash |-> None, parent |-> None, tree |-> None, author |-> "", message |-> "",
     timestamp |-> 0]

\* load_commit(hash)?: the commit, or the NotFound error that `?` propagates.
load_commit(store, h) ==
    IF HasCommit(store, h)
        THEN [err |-> FALSE, val |-> LoadCommit(store, h)]
        ELSE [err |-> TRUE, val |-> NoCommit]

-----------------------------------------------------------------------------
(* Commit-graph walks: merge.rs is_ancestor / find_common_ancestor and     *)
(* pull.rs is_ancestor. A result is [err, val]: err is the propagated      *)
(* NotFound of a failed load_commit.                                       *)

RECURSIVE is_ancestor_walk(_, _, _)
\* merge.rs: the while loop, `current` being the loop variable.
is_ancestor_walk(store, ancestor, current) ==
    IF current = ancestor THEN [err |-> FALSE, val |-> TRUE]
    ELSE LET commit == load_commit(store, current)
         IN  IF commit.err THEN [err |-> TRUE, val |-> FALSE]
             ELSE IF commit.val.parent # None
                 THEN is_ancestor_walk(store, ancestor, commit.val.parent)
                 ELSE [err |-> FALSE, val |-> FALSE]

\* A walk that gives up after looking at the descendant's parent.
is_ancestor_one_step(store, ancestor, descendant) ==
    IF descendant = ancestor THEN [err |-> FALSE, val |-> TRUE]
    ELSE LET commit == load_commit(store, descendant)
         IN  IF commit.err THEN [err |-> TRUE, val |-> FALSE]
             ELSE [err |-> FALSE, val |-> commit.val.parent = ancestor]

is_ancestor(store, ancestor, descendant) ==
    is_ancestor_walk(store, ancestor, descendant)

RECURSIVE pull_is_ancestor_walk(_, _, _)
\* pull.rs: the same loop, written a second time.
pull_is_ancestor_walk(store, ancestor, current) ==
    IF current # ancestor
        THEN LET commit == load_commit(store, current)
             IN  IF commit.err THEN [err |-> TRUE, val |-> FALSE]
                 ELSE IF commit.val.parent # None
                     THEN pull_is_ancestor_walk(store, ancestor, commit.val.parent)
                     ELSE [err |-> FALSE, val |-> FALSE]
        ELSE [err |-> FALSE, val |-> TRUE]

pull_is_ancestor(store, ancestor, descendant) ==
    pull_is_ancestor_walk(store, ancestor, descendant)

RECURSIVE collect_ancestors(_, _, _)
\* find_common_ancestor, first loop: ancestors1 after inserting `current`
\* and everything above it.
collect_ancestors(store, current, ancestors1) ==
    LET commit == load_commit(store, current)
    IN  IF commit.err THEN [err |-> TRUE, val |-> {}]
        ELSE IF commit.val.parent # None
            THEN collect_ancestors(store, commit.val.parent, ancestors1 \cup {current})
            ELSE [err |-> FALSE, val |-> ancestors1 \cup {current}]

RECURSIVE first_common(_, _, _)
\* find_common_ancestor, second loop.
first_common(store, current, ancestors1) ==
    IF current \in ancestors1 THEN [err |-> FALSE, val |-> current]
    ELSE LET commit == load_commit(store, current)
         IN  IF commit.err THEN [err |-> TRUE, val |-> None]
             ELSE IF commit.val.parent # None
                 THEN first_common(store, commit.val.parent, ancestors1)
                 ELSE [err |-> FALSE, val |-> None]

\* A second loop that only looks at commit2 itself.
find_common_ancestor_tip_only(store, commit1, commit2) ==
    LET ancestors1 == collect_ancestors(store, commit1, {})
    IN  IF ancestors1.err THEN [err |-> TRUE, val |-> None]
        ELSE IF commit2 \in ancestors1.val THEN [err |-> FALSE, val |-> commit2]
        ELSE [err |-> FALSE, val |-> None]

find_common_ancestor(store, commit1, commit2) ==
    LET ancestors1 == collect_ancestors(store, commit1, {})
    IN  IF ancestors1.err THEN [err |-> TRUE, val |-> None]
        ELSE first_common(store, commit2, ancestors1.val)

-----------------------------------------------------------------------------
(* Commit creation (the commit command, lib code outside commands/):       *)
(* hash = hash(tree || parent || author || message).                       *)

EmptyTreeHash == hash_content(Serialize(EmptyEntries, <<>>))

new_commit(tree, parent, author, message, now) ==
    [hash |-> hash_content(<<tree, parent, author \o message>>),
     parent |-> parent, tree |-> tree, author |-> author, message |-> message,
     timestamp |-> now]

GraphMessages == {"m1", "m2"}

-----------------------------------------------------------------------------
(* The specification of the commit-graph walks over arbitrary single-      *)
(* parent histories: commits are added below any stored commit or as new   *)
(* roots, and the walks are run on stored commits.                         *)

NoQuery == [done |-> FALSE,
            anc |-> [err |-> FALSE, val |-> FALSE],
            pull_anc |-> [err |-> FALSE, val |-> FALSE],
            anc_yz |-> [err |-> FALSE, val |-> FALSE],
            anc_xz |-> [err |-> FALSE, val |-> FALSE],
            lca |-> [err |-> FALSE, val |-> None]]

InitGraph ==
    /\ blobs = [r \in Repos |-> {}]
    /\ trees = [r \in Repos |-> {}]
    /\ commits = [r \in Repos |-> {}]
    /\ heads = [r \in Repos |-> [b \in Branches |-> None]]
    /\ tracking = [r \in Repos |-> [n \in RemoteNames |-> [b \in Branches |-> None]]]
    /\ HEAD = [r \in Repos |-> "main"]
    /\ index = [r \in Repos |-> EmptyEntries]
    /\ work = [r \in Repos |-> [p \in Paths |-> NoFile]]
    /\ config = [r \in Repos |-> [n \in RemoteNames |-> ""]]
    /\ stash = [r \in Repos |-> <<>>]
    /\ clock = 1
    /\ last = [op |-> "none"]
    /\ fin = [x |-> None, y |-> None, z |-> None]
    /\ fout = NoQuery

GraphCommit ==
    /\ Cardinality(commits["local"]) < MaxCommits
    /\ \E parent \in {c.hash : c \in commits["local"]} \cup {None}, m \in GraphMessages :
          LET c == new_commit(EmptyTreeHash, parent, "Ann", m, clock)
          IN  /\ c \notin commits["local"]
              /\ commits' = [commits EXCEPT !["local"] = @ \cup {c}]
    /\ fin' = [x |-> None, y |-> None, z |-> None]
    /\ fout' = NoQuery
    /\ UNCHANGED <<blobs, trees, heads, tracking, HEAD, index, work, config, stash, clock,
                   last>>

\* Run is_ancestor(x, y) (both copies), is_ancestor(y, z), is_ancestor(x, z)
\* and find_common_ancestor(x, y).
GraphQuery ==
    /\ \E x, y, z \in {c.hash : c \in commits["local"]} :
          /\ fin' = [x |-> x, y |-> y, z |-> z]
          /\ fout' = [done |-> TRUE,
                      anc |-> is_ancestor(commits["local"], x, y),
                      pull_anc |-> pull_is_ancestor(commits["local"], x, y),
                      anc_yz |-> is_ancestor(commits["local"], y, z),
                      anc_xz |-> is_ancestor(commits["local"], x, z),
                      lca |-> find_common_ancestor(commits["local"], x, y)]
    /\ UNCHANGED repoVars

NextGraph == GraphCommit \/ GraphQuery

SpecGraph == InitGraph /\ [][NextGraph]_vars

\* The same walks over a store that has lost an object: the file of a
\* commit that is some commit's parent is removed from objects/ of a store
\* that is whole, and the walks are run on the hashes the stored commits are
\* named by or record as their parent.
LoseCommit ==
    /\ \A d \in commits["local"] : d.parent # None => HasCommit(commits["local"], d.parent)
    /\ \E c \in commits["local"] :
          /\ \E d \in commits["local"] : d.parent = c.hash
          /\ commits' = [commits EXCEPT !["local"] = @ \ {c}]
    /\ fin' = [x |-> None, y |-> None, z |-> None]
    /\ fout' = NoQuery
    /\ UNCHANGED <<blobs, trees, heads, tracking, HEAD, index, work, config, stash, clock,
                   last>>

BrokenQuery ==
    /\ \E x, y \in {c.hash : c \in commits["local"]}
                      \cup ({c.parent : c \in commits["local"]} \ {None}) :
          /\ fin' = [x |-> x, y |-> y, z |-> y]
          /\ fout' = [done |-> TRUE,
                      anc |-> is_ancestor(commits["local"], x, y),
                      pull_anc |-> pull_is_ancestor(commits["local"], x, y),
                      anc_yz |-> is_ancestor(commits["local"], y, y),
                      anc_xz |-> is_ancestor(commits["local"], x, y),
                      lca |-> find_common_ancestor(commits["local"], x, y)]
    /\ UNCHANGED repoVars

NextBroken == GraphCommit \/ LoseCommit \/ BrokenQuery

SpecBroken == InitGraph /\ [][NextBroken]_vars

-----------------------------------------------------------------------------
(* The object store's trees and blobs *)

tree_object(entries, order) ==
    [hash |-> hash_content(Serialize(entries, order)), entries |-> entries]

HasTree(store, h) == \E t \in store : t.hash = h

LoadTree(store, h) == CHOOSE t \in store : t.hash = h

\* load_blob(hash).content: the bytes a blob hash was computed from.
blob_content(h) == h[2]

HasBlob(store, h) == h # None /\ blob_content(h) \in store

\* store_tree / store_commit: the object file is written at the path its
\* hash names, unless that file exists (spec 8, P2: writing an object whose
\* file exists does not change the file's bytes).
store_object(store, obj) ==
    IF \E o \in store : o.hash = obj.hash THEN store ELSE store \cup {obj}

-----------------------------------------------------------------------------
(* Refs and checkout (utils.rs and commands/checkout.rs, spec 4.C, 4.I) *)

\* utils::update_branch: whole-file write of refs/heads/<branch>.
update_branch(hs, branch, hash) == [hs EXCEPT ![branch] = hash]

\* Writing every is_file entry of a tree over the working tree; files the
\* tree does not name stay as they are.
write_tree_files(wk, entries) ==
    [p \in Paths |-> IF entries[p] # None THEN blob_content(entries[p]) ELSE wk[p]]

\* merge.rs restore_tree_to_working_dir: fails when a blob cannot be loaded.
restore_tree_to_working_dir(blobStore, wk, entries) ==
    IF \A p \in Keys(entries) : HasBlob(blobStore, entries[p])
        THEN [err |-> FALSE, work |-> write_tree_files(wk, entries)]
        ELSE [err |-> TRUE, work |-> wk]

\* commands::checkout of a branch name: the tip's tree is written over the
\* working tree and HEAD made symbolic to the branch.
checkout(commitStore, treeStore, blobStore, wk, tip) ==
    IF /\ HasCommit(commitStore, tip)
       /\ HasTree(treeStore, LoadCommit(commitStore, tip).tree)
        THEN restore_tree_to_working_dir(blobStore, wk,
                 LoadTree(treeStore, LoadCommit(commitStore, tip).tree).entries)
        ELSE [err |-> TRUE, work |-> wk]

-----------------------------------------------------------------------------
(* merge.rs: perform_three_way_merge and merge *)

\* Every sequence of distinct paths.
Orders ==
    {s \in UNION {[1 .. n -> Paths] : n \in 0 .. Cardinality(Paths)} :
        \A i, j \in DOMAIN s : i # j => s[i] # s[j]}

\* Lines 217-226: the merged entries serialized in `order`, the iteration
\* order of the merged_entries HashMap, and hashed into a Tree.
merged_tree(merged, order) ==
    [err |-> FALSE, tree |-> tree_object(merged.entries, order), notices |-> merged.notices,
     ordered |-> {order[i] : i \in DOMAIN order} = Keys(merged.entries)]

\* The three trees loaded through their commits and merged. The caller
\* stores the tree.
perform_three_way_merge(commitStore, treeStore, base_commit, our_commit, their_commit, order) ==
    LET ok(h) == /\ HasCommit(commitStore, h)
                 /\ HasTree(treeStore, LoadCommit(commitStore, h).tree)
        tree(h) == LoadTree(treeStore, LoadCommit(commitStore, h).tree).entries
    IN  IF ok(base_commit) /\ ok(our_commit) /\ ok(their_commit)
            THEN merged_tree(merge_entries(tree(base_commit), tree(our_commit),
                                           tree(their_commit)), order)
            ELSE [err |-> TRUE, tree |-> tree_object(EmptyEntries, <<>>), notices |-> {},
                  ordered |-> TRUE]

merge_message(branch_name, current_branch) ==
    "Merge branch '" \o branch_name \o "' into " \o current_branch

\* A merge commit that records the merged-in tip as its parent.
merge_commit_obj_wrong_parent(tree_hash, current_commit, merge_commit, author, message) ==
    [hash |-> hash_content(<<tree_hash, current_commit, merge_commit, author \o message>>),
     parent |-> merge_commit, tree |-> tree_hash, author |-> author,
     message |-> message, timestamp |-> clock]

\* The merge commit: its hash covers the merged tree, both tips, the author
\* and the message; the stored object records the current tip as parent and
\* Utc::now() as timestamp.
merge_commit_obj(tree_hash, current_commit, merge_commit, author, message) ==
    [hash |-> hash_content(<<tree_hash, current_commit, merge_commit, author \o message>>),
     parent |-> current_commit, tree |-> tree_hash, author |-> author,
     message |-> message, timestamp |-> clock]

\* What a command reports: its name and arguments, how it ended, the paths
\* it printed a CONFLICT notice for, and whether it found uncommitted changes.
Report(op, repo, name, branch, outcome, notices, dirty) ==
    [op |-> op, repo |-> repo, name |-> name, branch |-> branch, outcome |-> outcome,
     notices |-> notices, dirty |-> dirty]

Failed(op, repo, name, branch, why) ==
    /\ last' = Report(op, repo, name, branch, why, {}, FALSE)
    /\ UNCHANGED <<blobs, trees, commits, heads, tracking, HEAD, index, work>>

\* A fast-forward that checks the other tip out and leaves the branch ref.
MergeFastForward_keeps_ref(r, branch_name, current_branch, merge_commit, co) ==
    /\ work' = [work EXCEPT ![r] = co.work]
    /\ last' = Report("merge", r, "", branch_name,
                      IF co.err THEN "error: checkout" ELSE "fast-forward", {}, FALSE)
    /\ UNCHANGED <<blobs, trees, commits, heads, tracking, HEAD, index>>

\* merge, lines 25-32: the fast-forward. `co` is the checkout of the
\* advanced branch.
MergeFastForward(r, branch_name, current_branch, merge_commit, co) ==
    /\ heads' = [heads EXCEPT ![r] = update_branch(@, current_branch, merge_commit)]
    /\ work' = [work EXCEPT ![r] = co.work]
    /\ HEAD' = IF co.err THEN HEAD ELSE [HEAD EXCEPT ![r] = current_branch]
    /\ last' = Report("merge", r, "", branch_name,
                      IF co.err THEN "error: checkout" ELSE "fast-forward", {}, FALSE)
    /\ UNCHANGED <<blobs, trees, commits, tracking, index>>

\* merge, lines 68-75: the merge commit is stored, the branch advanced to
\* it and the merged tree written to the working directory.
MergeStore(r, branch_name, current_branch, res, obj, rs) ==
    /\ trees' = [trees EXCEPT ![r] = store_object(@, res.tree)]
    /\ commits' = [commits EXCEPT ![r] = store_object(@, obj)]
    /\ Cardinality(commits'[r]) <= MaxCommits
    /\ heads' = [heads EXCEPT ![r] = update_branch(@, current_branch, obj.hash)]
    /\ work' = [work EXCEPT ![r] = rs.work]
    /\ last' = Report("merge", r, "", branch_name,
                      IF rs.err THEN "error: not found" ELSE "merged", res.notices, FALSE)
    /\ UNCHANGED <<blobs, tracking, HEAD, index>>

\* merge, lines 43-66: `res` is perform_three_way_merge's result.
MergeCommit(r, branch_name, who, current_branch, current_commit, merge_commit, res) ==
    IF res.err
        THEN Failed("merge", r, "", branch_name, "error: not found")
        ELSE /\ res.ordered
             /\ MergeStore(r, branch_name, current_branch, res,
                 merge_commit_obj(res.tree.hash, current_commit, merge_commit, who,
                                  merge_message(branch_name, current_branch)),
                 restore_tree_to_working_dir(blobs[r], work[r], res.tree.entries))

\* merge, lines 34-48: the three-way merge over the common ancestor.
MergeThreeWay(r, branch_name, author, current_branch, current_commit, merge_commit, common_ancestor) ==
    \E order \in Orders :
        MergeCommit(r, branch_name, IF author = NoAuthor THEN DefaultAuthor ELSE author,
                    current_branch, current_commit, merge_commit,
                    perform_three_way_merge(commits[r], trees[r], common_ancestor,
                                            current_commit, merge_commit, order))

\* A merge without the check that the named branch is not the current one.
MergeBranch_no_self_check(r, branch_name, author, current_branch, current_commit, merge_commit, ff, common_ancestor) ==
    IF current_commit = None
        THEN Failed("merge", r, "", branch_name, "error: no commits")
    ELSE IF merge_commit = None
        THEN Failed("merge", r, "", branch_name, "error: branch not found")
    ELSE IF current_commit = merge_commit
        THEN /\ last' = Report("merge", r, "", branch_name, "up to date", {}, FALSE)
             /\ UNCHANGED <<blobs, trees, commits, heads, tracking, HEAD, index, work>>
    ELSE IF ff.err
        THEN Failed("merge", r, "", branch_name, "error: not found")
    ELSE IF ff.val
        THEN MergeFastForward(r, branch_name, current_branch, merge_commit,
                 checkout(commits[r], trees[r], blobs[r], work[r], merge_commit))
    ELSE IF common_ancestor.err
        THEN Failed("merge", r, "", branch_name, "error: not found")
    ELSE IF common_ancestor.val = None
        THEN Failed("merge", r, "", branch_name, "error: no common ancestor")
    ELSE MergeThreeWay(r, branch_name, author, current_branch, current_commit,
                       merge_commit, common_ancestor.val)

\* merge, lines 7-36: `ff` is is_ancestor's result and `common_ancestor`
\* find_common_ancestor's.
MergeBranch(r, branch_name, author, current_branch, current_commit, merge_commit, ff, common_ancestor) ==
    IF current_branch = branch_name
        THEN Failed("merge", r, "", branch_name, "error: merge into itself")
    ELSE IF current_commit = None
        THEN Failed("merge", r, "", branch_name, "error: no commits")
    ELSE IF merge_commit = None
        THEN Failed("merge", r, "", branch_name, "error: branch not found")
    ELSE IF current_commit = merge_commit
        THEN /\ last' = Report("merge", r, "", branch_name, "up to date", {}, FALSE)
             /\ UNCHANGED <<blobs, trees, commits, heads, tracking, HEAD, index, work>>
    ELSE IF ff.err
        THEN Failed("merge", r, "", branch_name, "error: not found")
    ELSE IF ff.val
        THEN MergeFastForward(r, branch_name, current_branch, merge_commit,
                 checkout(commits[r], trees[r], blobs[r], work[r], merge_commit))
    ELSE IF common_ancestor.err
        THEN Failed("merge", r, "", branch_name, "error: not found")
    ELSE IF common_ancestor.val = None
        THEN Failed("merge", r, "", branch_name, "error: no common ancestor")
    ELSE MergeThreeWay(r, branch_name, author, current_branch, current_commit,
                       merge_commit, common_ancestor.val)

\* merge(repo, branch_name, author)
Merge(r, branch_name, author) ==
    /\ MergeBranch(r, branch_name, author, HEAD[r], heads[r][HEAD[r]], heads[r][branch_name],
                   is_ancestor(commits[r], heads[r][HEAD[r]], heads[r][branch_name]),
                   find_common_ancestor(commits[r], heads[r][HEAD[r]],
                                        heads[r][branch_name]))
    /\ UNCHANGED <<config, stash, clock, fin, fout>>

-----------------------------------------------------------------------------
(* push.rs *)

NoUrl == ""

NetworkUrl == "https://example.com/repo.git"

\* The HEAD of a directory that does not exist.
NoHead == ""

\* PathBuf::from(url).exists(): the urls that name a directory that is there.
path_exists(url) == url \in Repos /\ HEAD[url] # NoHead

\* get_remote_url: the url of [remote "<name>"], or the not-found error.
get_remote_url(cfg, remote_name) ==
    [err |-> cfg[remote_name] = NoUrl, val |-> cfg[remote_name]]

\* A copy that writes every source object over the destination's.
copy_missing_objects_overwrite(src, dst) ==
    src \cup {d \in dst : \A o \in src : o.hash # d.hash}

\* copy_missing_objects on the object files of one kind: every source file
\* whose destination does not exist is copied.
copy_missing_objects(src, dst) ==
    dst \cup {o \in src : \A d \in dst : d.hash # o.hash}

\* The same on blob files, which the model names by their content.
copy_missing_blobs(src, dst) == dst \cup {c \in src : c \notin dst}

\* A check that does not look for untracked files.
check_for_uncommitted_changes_tracked_only(idx, wk) ==
    \E p \in Keys(idx) : wk[p] = NoFile \/ hash_content(wk[p]) # idx[p]

check_for_uncommitted_changes(idx, wk) ==
    \/ \E p \in Keys(idx) :
          IF wk[p] # NoFile
              THEN hash_content(wk[p]) # idx[p]      \* Modified file
              ELSE TRUE                               \* Deleted file
    \/ \E p \in Paths : wk[p] # NoFile /\ idx[p] = None   \* Untracked file

\* An update that restores the tree's files over the files that are there.
restore_and_index_no_clear(wk, entries, rs) ==
    [err |-> FALSE, work |-> write_tree_files(wk, entries), index |-> entries,
     wrote_index |-> TRUE]

\* update_remote_working_directory, lines 200-233: `rs` is the restore of
\* the tree's files into the cleared directory; the index is rebuilt from
\* the tree unless a blob failed to load.
restore_and_index(wk, entries, rs) ==
    [err |-> rs.err, work |-> rs.work, index |-> entries, wrote_index |-> ~rs.err]

\* update_remote_working_directory: every entry of work_dir but .mini_git is
\* removed, the tree's files are written and the index rebuilt from the
\* tree.
update_remote_working_directory(commitStore, treeStore, blobStore, wk, commit_hash) ==
    IF ~(/\ HasCommit(commitStore, commit_hash)
         /\ HasTree(treeStore, LoadCommit(commitStore, commit_hash).tree))
        THEN [err |-> TRUE, work |-> wk, index |-> EmptyEntries, wrote_index |-> FALSE]
        ELSE restore_and_index(wk,
                 LoadTree(treeStore, LoadCommit(commitStore, commit_hash).tree).entries,
                 restore_tree_to_working_dir(blobStore, [p \in Paths |-> NoFile],
                     LoadTree(treeStore, LoadCommit(commitStore, commit_hash).tree).entries))

\* push_to_local_remote, lines 80-136: the remote's branch ref is written,
\* its working directory updated when it has no uncommitted changes, and
\* the local tracking ref written. `upd` is the working-directory update.
PushRefs(r, q, remote_name, branch_name, commit_hash, remote_has_changes, upd) ==
    /\ heads' = [heads EXCEPT ![q] = [@ EXCEPT ![branch_name] = commit_hash]]
    /\ work' = IF remote_has_changes THEN work ELSE [work EXCEPT ![q] = upd.work]
    /\ index' = IF remote_has_changes \/ ~upd.wrote_index THEN index
                ELSE [index EXCEPT ![q] = upd.index]
    /\ tracking' = IF ~remote_has_changes /\ upd.err THEN tracking
                   ELSE [tracking EXCEPT ![r]["origin"][branch_name] = commit_hash]
    /\ last' = Report("push", r, remote_name, branch_name,
                      IF ~remote_has_changes /\ upd.err THEN "error: not found"
                      ELSE "pushed", {}, remote_has_changes)
    /\ UNCHANGED HEAD

\* push_to_local_remote, lines 68-78: the objects are copied first.
PushObjects(r, q, remote_name, branch_name, commit_hash, newBlobs, newTrees, newCommits) ==
    /\ blobs' = [blobs EXCEPT ![q] = newBlobs]
    /\ trees' = [trees EXCEPT ![q] = newTrees]
    /\ commits' = [commits EXCEPT ![q] = newCommits]
    /\ PushRefs(r, q, remote_name, branch_name, commit_hash,
                check_for_uncommitted_changes(index[q], work[q]),
                update_remote_working_directory(newCommits, newTrees, newBlobs, work[q],
                                                commit_hash))

\* push_to_local_remote(repo, remote_path, branch_name, commit_hash)
push_to_local_remote(r, q, remote_name, branch_name, commit_hash) ==
    PushObjects(r, q, remote_name, branch_name, commit_hash,
                copy_missing_blobs(blobs[r], blobs[q]),
                copy_missing_objects(trees[r], trees[q]),
                copy_missing_objects(commits[r], commits[q]))

\* push(repo, remote, branch)
Push(r, remote_name, branch_name) ==
    LET remote_url == get_remote_url(config[r], remote_name)
        local_commit == heads[r][branch_name]
    IN  /\ UNCHANGED <<config, stash, clock, fin, fout>>
        /\ IF remote_url.err
               THEN Failed("push", r, remote_name, branch_name, "error: remote not found")
           ELSE IF local_commit = None
               THEN Failed("push", r, remote_name, branch_name, "error: no commits")
           ELSE IF path_exists(remote_url.val)
               THEN push_to_local_remote(r, remote_url.val, remote_name, branch_name,
                                         local_commit)
           ELSE \* no such path: only the local tracking ref is written
                /\ tracking' = [tracking EXCEPT ![r][remote_name][branch_name] = local_commit]
                /\ last' = Report("push", r, remote_name, branch_name, "not local", {}, FALSE)
                /\ UNCHANGED <<blobs, trees, commits, heads, HEAD, index, work>>

-----------------------------------------------------------------------------
(* clone.rs *)

\* A copy that writes the branch refs only.
copy_refs_heads_only(src_heads) ==
    [heads |-> src_heads, origin |-> [b \in Branches |-> None]]

\* copy_refs: every branch ref of the source, as a branch and as a tracking
\* ref of origin.
copy_refs(src_heads) == [heads |-> src_heads, origin |-> src_heads]

\* checkout_commit: the is_file entries of the commit's tree are written to
\* the working directory; no index is written.
checkout_commit(commitStore, treeStore, blobStore, wk, commit_hash) ==
    IF /\ HasCommit(commitStore, commit_hash)
       /\ HasTree(treeStore, LoadCommit(commitStore, commit_hash).tree)
        THEN restore_tree_to_working_dir(blobStore, wk,
                 LoadTree(treeStore, LoadCommit(commitStore, commit_hash).tree).entries)
        ELSE [err |-> TRUE, work |-> wk]

\* clone_local(repo, source_path): objects and refs are copied and main's
\* commit, when there is one, checked out. `co` is the checkout.
clone_local(q, r, co) ==
    /\ blobs' = [blobs EXCEPT ![r] = blobs[q]]
    /\ trees' = [trees EXCEPT ![r] = trees[q]]
    /\ commits' = [commits EXCEPT ![r] = commits[q]]
    /\ heads' = [heads EXCEPT ![r] = copy_refs(heads[q]).heads]
    /\ tracking' = [tracking EXCEPT ![r]["origin"] = copy_refs(heads[q]).origin]
    /\ work' = IF heads[q]["main"] # None THEN [work EXCEPT ![r] = co.work] ELSE work
    /\ last' = Report("clone", r, q, "main",
                      IF heads[q]["main"] # None /\ co.err THEN "error: not found" ELSE "cloned",
                      {}, FALSE)

\* clone(url, directory): a url that names no directory is only reported, and
\* a directory that is there is an error; the new repository's HEAD is main
\* and its remote origin the url.
Clone(url, r) ==
    /\ UNCHANGED <<index, stash, clock, fin, fout>>
    /\ IF ~path_exists(url)
           THEN /\ Failed("clone", r, url, "main", "not local")
                /\ UNCHANGED config
       ELSE IF path_exists(r)
           THEN /\ Failed("clone", r, url, "main", "error: directory exists")
                /\ UNCHANGED config
       ELSE /\ HEAD' = [HEAD EXCEPT ![r] = "main"]
            /\ config' = [config EXCEPT ![r]["origin"] = url]
            /\ clone_local(url, r,
                           checkout_commit(commits[url], trees[url], blobs[url], work[r],
                                           heads[url]["main"]))

-----------------------------------------------------------------------------
(* remote.rs *)

\* A network url whose query holds the text "url = ".
QueryUrl == "https://example.com/repo.git?url = main"

\* is_local_path(url): the url has none of the network prefixes.
is_local_path(url) == url \notin {NetworkUrl, QueryUrl}

\* set_remote_url(repo, name, new_url): a local path must exist; the url of
\* the section [remote "<name>"] is replaced, and a missing section is an
\* error.
SetRemoteUrl(r, name, new_url) ==
    /\ IF is_local_path(new_url) /\ ~path_exists(new_url)
           THEN Failed("remote set-url", r, name, "", "error: no such path")
       ELSE IF config[r][name] = NoUrl
           THEN Failed("remote set-url", r, name, "", "error: remote not found")
       ELSE /\ last' = Report("remote set-url", r, name, "", "set", {}, FALSE)
            /\ UNCHANGED <<blobs, trees, commits, heads, tracking, HEAD, index, work>>
    /\ config' = IF (is_local_path(new_url) /\ ~path_exists(new_url)) \/ config[r][name] = NoUrl
                     THEN config
                     ELSE [config EXCEPT ![r][name] = new_url]
    /\ UNCHANGED <<stash, clock, fin, fout>>

-----------------------------------------------------------------------------
(* pull.rs: fetch and pull *)

\* A fetch that also moves the local branch onto the fetched tip.
fetch_from_local_remote_moves_branch(r, q, remote_name, branch_name) ==
    /\ blobs' = [blobs EXCEPT ![r] = copy_missing_blobs(blobs[q], blobs[r])]
    /\ trees' = [trees EXCEPT ![r] = copy_missing_objects(trees[q], trees[r])]
    /\ commits' = [commits EXCEPT ![r] = copy_missing_objects(commits[q], commits[r])]
    /\ tracking' = IF heads[q][branch_name] # None
                       THEN [tracking EXCEPT ![r][remote_name][branch_name] =
                                                 heads[q][branch_name]]
                       ELSE tracking
    /\ heads' = IF heads[q][branch_name] # None
                    THEN [heads EXCEPT ![r][branch_name] = heads[q][branch_name]]
                    ELSE heads
    /\ last' = Report("fetch", r, remote_name, branch_name, "fetched", {}, FALSE)
    /\ UNCHANGED <<HEAD, index, work>>

\* fetch_from_local_remote(repo, remote_path, remote_name, branch_name): the
\* remote's object files the local store lacks are copied, and the tracking
\* ref is written when the remote has the branch.
fetch_from_local_remote(r, q, remote_name, branch_name) ==
    /\ blobs' = [blobs EXCEPT ![r] = copy_missing_blobs(blobs[q], blobs[r])]
    /\ trees' = [trees EXCEPT ![r] = copy_missing_objects(trees[q], trees[r])]
    /\ commits' = [commits EXCEPT ![r] = copy_missing_objects(commits[q], commits[r])]
    /\ tracking' = IF heads[q][branch_name] # None
                       THEN [tracking EXCEPT ![r][remote_name][branch_name] =
                                                 heads[q][branch_name]]
                       ELSE tracking
    /\ last' = Report("fetch", r, remote_name, branch_name, "fetched", {}, FALSE)
    /\ UNCHANGED <<heads, HEAD, index, work>>

\* fetch(repo, remote, branch)
Fetch(r, remote_name, branch_name) ==
    LET remote_url == get_remote_url(config[r], remote_name)
    IN  /\ UNCHANGED <<config, stash, clock, fin, fout>>
        /\ IF remote_url.err
               THEN Failed("fetch", r, remote_name, branch_name, "error: remote not found")
           ELSE IF path_exists(remote_url.val)
               THEN fetch_from_local_remote(r, remote_url.val, remote_name, branch_name)
           ELSE \* no such path: a note is printed and nothing is written
                /\ last' = Report("fetch", r, remote_name, branch_name, "not local", {}, FALSE)
                /\ UNCHANGED <<blobs, trees, commits, heads, tracking, HEAD, index, work>>

\* A pull that moves the branch onto the fetched tip whenever the tips differ.
PullMerge_always_moves(r, remote_name, branch_name, remote_commit, current_commit, ff, co) ==
    IF remote_commit = None \/ current_commit = remote_commit
        THEN /\ last' = Report("pull", r, remote_name, branch_name, "up to date", {}, FALSE)
             /\ UNCHANGED <<heads, HEAD, index, work>>
    ELSE /\ heads' = [heads EXCEPT ![r] = update_branch(@, branch_name, remote_commit)]
         /\ work' = [work EXCEPT ![r] = co.work]
         /\ HEAD' = IF co.err THEN HEAD ELSE [HEAD EXCEPT ![r] = branch_name]
         /\ last' = Report("pull", r, remote_name, branch_name, "fast-forward", {}, FALSE)
         /\ UNCHANGED index

\* pull, lines 16-46, after the fetch: `remote_commit` is the tracking ref,
\* `current_commit` the local branch's tip, `ff` is_ancestor's result and
\* `co` the checkout of the branch once it is moved.
PullMerge(r, remote_name, branch_name, remote_commit, current_commit, ff, co) ==
    IF remote_commit = None
        THEN /\ last' = Report("pull", r, remote_name, branch_name, "no remote commits", {},
                               FALSE)
             /\ UNCHANGED <<heads, HEAD, index, work>>
    ELSE IF current_commit # None /\ current_commit = remote_commit
        THEN /\ last' = Report("pull", r, remote_name, branch_name, "up to date", {}, FALSE)
             /\ UNCHANGED <<heads, HEAD, index, work>>
    ELSE IF current_commit # None /\ ff.err
        THEN /\ last' = Report("pull", r, remote_name, branch_name, "error: not found", {},
                               FALSE)
             /\ UNCHANGED <<heads, HEAD, index, work>>
    ELSE IF current_commit # None /\ ~ff.val
        THEN /\ last' = Report("pull", r, remote_name, branch_name, "not fast-forward", {},
                               FALSE)
             /\ UNCHANGED <<heads, HEAD, index, work>>
    ELSE /\ heads' = [heads EXCEPT ![r] = update_branch(@, branch_name, remote_commit)]
         /\ work' = [work EXCEPT ![r] = co.work]
         /\ HEAD' = IF co.err THEN HEAD ELSE [HEAD EXCEPT ![r] = branch_name]
         /\ last' = Report("pull", r, remote_name, branch_name,
                           IF co.err THEN "error: checkout" ELSE "fast-forward", {}, FALSE)
         /\ UNCHANGED index

\* pull, lines 13-16: what the fetch leaves behind, and the tracking ref
\* read back.
PullFetched(r, remote_name, branch_name, newBlobs, newTrees, newCommits, remote_commit) ==
    /\ blobs' = [blobs EXCEPT ![r] = newBlobs]
    /\ trees' = [trees EXCEPT ![r] = newTrees]
    /\ commits' = [commits EXCEPT ![r] = newCommits]
    /\ tracking' = [tracking EXCEPT ![r][remote_name][branch_name] = remote_commit]
    /\ PullMerge(r, remote_name, branch_name, remote_commit, heads[r][branch_name],
                 pull_is_ancestor(newCommits, heads[r][branch_name], remote_commit),
                 checkout(newCommits, newTrees, newBlobs, work[r], remote_commit))

\* pull(repo, remote, branch), fetching from the local path q
PullFrom(r, q, remote_name, branch_name) ==
    PullFetched(r, remote_name, branch_name,
                copy_missing_blobs(blobs[q], blobs[r]),
                copy_missing_objects(trees[q], trees[r]),
                copy_missing_objects(commits[q], commits[r]),
                IF heads[q][branch_name] # None THEN heads[q][branch_name]
                ELSE tracking[r][remote_name][branch_name])

\* pull(repo, remote, branch)
Pull(r, remote_name, branch_name) ==
    LET remote_url == get_remote_url(config[r], remote_name)
    IN  /\ UNCHANGED <<config, stash, clock, fin, fout>>
        /\ IF remote_url.err
               THEN Failed("pull", r, remote_name, branch_name, "error: remote not found")
           ELSE IF path_exists(remote_url.val)
               THEN PullFrom(r, remote_url.val, remote_name, branch_name)
           ELSE \* the fetch prints its note; the tracking ref is read as it is
                PullFetched(r, remote_name, branch_name, blobs[r], trees[r], commits[r],
                            tracking[r][remote_name][branch_name])

-----------------------------------------------------------------------------
(* stash.rs. The stash file is a list; entry n of the program is element   *)
(* n + 1 of the sequence.                                                  *)

StashAuthor == "Mini Git Stash <stash@minigit.local>"

\* The message option when -m is not given.
NoMessage == ""

\* What a stash push takes away: the working tree, the index and the list
\* as they were when the command started.
NoOrigin == [work |-> [p \in Paths |-> NoFile], index |-> EmptyEntries, stash |-> <<>>]

\* A report of a stash command on entry n. A saving push reports the state
\* it started from; the command that follows a saving push hands that
\* state on (follows_push).
StashReport(op, repo, n, outcome, follows_push, origin) ==
    [op |-> op, repo |-> repo, n |-> n, outcome |-> outcome, name |-> "", branch |-> "",
     notices |-> {}, dirty |-> FALSE, follows_push |-> follows_push, origin |-> origin]

\* A test that also finds the files the index has no entry for.
has_unstaged_changes_sees_untracked(idx, wk) ==
    \/ \E p \in Keys(idx) : wk[p] = NoFile \/ hash_content(wk[p]) # idx[p]
    \/ \E p \in Paths : wk[p] # NoFile /\ idx[p] = None

\* has_unstaged_changes: only the index's entries are looked at.
has_unstaged_changes(idx, wk) ==
    \E p \in Keys(idx) :
        IF wk[p] # NoFile THEN hash_content(wk[p]) # idx[p] ELSE TRUE

\* get_last_commit_subject(repo).unwrap_or("unknown")
get_last_commit_subject(commitStore, tip) ==
    IF tip = None THEN "no commits yet"
    ELSE IF HasCommit(commitStore, tip) THEN LoadCommit(commitStore, tip).message
    ELSE "unknown"

\* stash_push, lines 64-70
stash_message(message, branch, commitStore, tip) ==
    IF message # NoMessage THEN message
    ELSE "WIP on " \o branch \o ": " \o get_last_commit_subject(commitStore, tip)

\* create_tree_from_index: one entry per index entry, serialized in the
\* HashMap's iteration order.
create_tree_from_index(idx, order) == tree_object(idx, order)

\* The files under work_dir outside .mini_git, as path -> blob hash.
working_entries(wk) ==
    [p \in Paths |-> IF wk[p] # NoFile THEN hash_content(wk[p]) ELSE None]

\* create_tree_from_working_dir: every file is stored as a blob and entered.
create_tree_from_working_dir(wk, order) == tree_object(working_entries(wk), order)

\* An index rebuilt with no entry.
create_index_from_tree_empty(entries) == EmptyEntries

\* create_index_from_tree: one index entry per tree entry.
create_index_from_tree(entries) == [p \in Paths |-> entries[p]]

\* stash_push, lines 79-96: the stash commit.
stash_commit(working_tree_hash, parent_commit, message) ==
    [hash |-> hash_content(<<working_tree_hash, parent_commit, StashAuthor \o message>>),
     parent |-> parent_commit, tree |-> working_tree_hash, author |-> StashAuthor,
     message |-> message, timestamp |-> clock]

\* stash_push, lines 101-108
stash_entry(message, commit_hash, parent_commit, index_tree, working_tree) ==
    [message |-> message, commit_hash |-> commit_hash, parent_commit |-> parent_commit,
     index_tree |-> index_tree, working_tree |-> working_tree, timestamp |-> clock]

\* An insertion at the end of the list.
save_stash_entry_at_end(entries, entry) == Append(entries, entry)

\* save_stash_entry: entries.insert(0, stash)
save_stash_entry(entries, entry) == <<entry>> \o entries

\* Vec::remove(stash_index): entry n is element n + 1 of the sequence.
remove_entry(entries, n) ==
    [i \in 1 .. (Len(entries) - 1) |-> IF i <= n THEN entries[i] ELSE entries[i + 1]]

\* A clearing that removes nothing.
clear_working_directory_none(wk) == wk

\* clear_working_directory: every entry of work_dir but .mini_git is removed.
clear_working_directory(wk) == [p \in Paths |-> NoFile]

\* stash_push, lines 72-118, once there is something to save.
StashSave(r, message, index_tree, working_tree, parent_commit) ==
    /\ Len(stash[r]) < MaxStash
    /\ blobs' = [blobs EXCEPT ![r] = @ \cup {work[r][p] : p \in Keys(working_tree.entries)}]
    /\ trees' = [trees EXCEPT ![r] = store_object(store_object(@, index_tree), working_tree)]
    /\ commits' = [commits EXCEPT
                     ![r] = store_object(@, stash_commit(working_tree.hash, parent_commit, message))]
    /\ Cardinality(commits'[r]) <= MaxCommits
    /\ stash' = [stash EXCEPT
                   ![r] = save_stash_entry(@,
                              stash_entry(message,
                                          stash_commit(working_tree.hash, parent_commit, message).hash,
                                          parent_commit, index_tree.hash, working_tree.hash))]
    /\ work' = [work EXCEPT ![r] = clear_working_directory(@)]
    /\ index' = [index EXCEPT ![r] = EmptyEntries]
    /\ last' = StashReport("stash push", r, 0, "saved", FALSE,
                           [work |-> work[r], index |-> index[r], stash |-> stash[r]])

\* stash_push(repo, message)
StashPush(r, message, order_i, order_w) ==
    /\ IF Keys(index[r]) = {} /\ ~has_unstaged_changes(index[r], work[r])
         THEN /\ order_i = <<>> /\ order_w = <<>>
              /\ last' = StashReport("stash push", r, 0, "no local changes", FALSE, NoOrigin)
              /\ UNCHANGED <<blobs, trees, commits, stash, work, index>>
         ELSE /\ {order_i[i] : i \in DOMAIN order_i} = Keys(index[r])
              /\ {order_w[i] : i \in DOMAIN order_w} = Keys(working_entries(work[r]))
              /\ StashSave(r,
                           stash_message(message, HEAD[r], commits[r], heads[r][HEAD[r]]),
                           create_tree_from_index(index[r], order_i),
                           create_tree_from_working_dir(work[r], order_w),
                           heads[r][HEAD[r]])
    /\ UNCHANGED <<heads, tracking, HEAD, config, clock, fin, fout>>

\* A pop that restores the newest entry whatever the index.
StashRestore_newest(r, n, entry, follows) ==
    /\ work' = [work EXCEPT
                  ![r] = write_tree_files(@, LoadTree(trees[r], stash[r][1].working_tree).entries)]
    /\ index' = [index EXCEPT
                   ![r] = create_index_from_tree(LoadTree(trees[r], stash[r][1].index_tree).entries)]
    /\ stash' = [stash EXCEPT ![r] = remove_entry(@, n)]
    /\ last' = StashReport("stash pop", r, n, "popped", follows, IF follows THEN last.origin ELSE NoOrigin)

\* stash_pop, lines 133-149: the working tree is restored, then the index is
\* replaced, then the entry is removed; a tree or a blob that cannot be
\* loaded ends the command before the list is saved.
StashRestore(r, n, entry, follows) ==
    IF ~HasTree(trees[r], entry.working_tree)
        THEN /\ last' = StashReport("stash pop", r, n, "error: object", follows, IF follows THEN last.origin ELSE NoOrigin)
             /\ UNCHANGED <<work, index, stash>>
    ELSE IF restore_tree_to_working_dir(blobs[r], work[r],
                                        LoadTree(trees[r], entry.working_tree).entries).err
        THEN /\ last' = StashReport("stash pop", r, n, "error: object", follows, IF follows THEN last.origin ELSE NoOrigin)
             /\ UNCHANGED <<work, index, stash>>
    ELSE IF ~HasTree(trees[r], entry.index_tree)
        THEN /\ work' = [work EXCEPT
                           ![r] = write_tree_files(@, LoadTree(trees[r], entry.working_tree).entries)]
             /\ last' = StashReport("stash pop", r, n, "error: object", follows, IF follows THEN last.origin ELSE NoOrigin)
             /\ UNCHANGED <<index, stash>>
    ELSE /\ work' = [work EXCEPT
                       ![r] = write_tree_files(@, LoadTree(trees[r], entry.working_tree).entries)]
         /\ index' = [index EXCEPT
                        ![r] = create_index_from_tree(LoadTree(trees[r], entry.index_tree).entries)]
         /\ stash' = [stash EXCEPT ![r] = remove_entry(@, n)]
         /\ last' = StashReport("stash pop", r, n, "popped", follows, IF follows THEN last.origin ELSE NoOrigin)

\* stash_pop(repo, index)
StashPop(r, n) ==
    /\ IF n >= Len(stash[r])
         THEN /\ last' = StashReport("stash pop", r, n, "error: invalid index", FALSE, NoOrigin)
              /\ UNCHANGED <<work, index, stash>>
         ELSE StashRestore(r, n, stash[r][n + 1],
                           last.op = "stash push" /\ last.repo = r /\ last.outcome = "saved")
    /\ UNCHANGED <<blobs, trees, commits, heads, tracking, HEAD, config, clock, fin, fout>>

\* stash_show(repo, index): prints the entry and the paths of its working
\* tree (the report's notices); nothing is written.
StashShow(r, n) ==
    /\ IF n >= Len(stash[r])
         THEN last' = StashReport("stash show", r, n, "error: invalid index", FALSE, NoOrigin)
         ELSE last' = [StashReport("stash show", r, n, "shown", FALSE, NoOrigin)
                          EXCEPT !.notices = Keys(LoadTree(trees[r], stash[r][n + 1].working_tree).entries)]
    /\ UNCHANGED <<blobs, trees, commits, heads, tracking, HEAD, index, work, stash, config,
                   clock, fin, fout>>

\* A drop that takes an index past the end for the last entry.
StashDrop_clamped(r, n) ==
    /\ IF Len(stash[r]) = 0
         THEN /\ last' = StashReport("stash drop", r, n, "error: invalid index", FALSE, NoOrigin)
              /\ UNCHANGED stash
         ELSE /\ stash' = [stash EXCEPT ![r] = remove_entry(@, IF n >= Len(@) THEN Len(@) - 1 ELSE n)]
              /\ last' = StashReport("stash drop", r, n, "dropped", FALSE, NoOrigin)
    /\ UNCHANGED <<blobs, trees, commits, heads, tracking, HEAD, index, work, config, clock,
                   fin, fout>>

\* stash_drop(repo, index)
StashDrop(r, n) ==
    /\ IF n >= Len(stash[r])
         THEN /\ last' = StashReport("stash drop", r, n, "error: invalid index", FALSE, NoOrigin)
              /\ UNCHANGED stash
         ELSE /\ stash' = [stash EXCEPT ![r] = remove_entry(@, n)]
              /\ last' = StashReport("stash drop", r, n, "dropped", FALSE, NoOrigin)
    /\ UNCHANGED <<blobs, trees, commits, heads, tracking, HEAD, index, work, config, clock,
                   fin, fout>>

\* stash_clear(repo): the stash file is removed.
StashClear(r) ==
    /\ stash' = [stash EXCEPT ![r] = <<>>]
    /\ last' = StashReport("stash clear", r, 0, "cleared", FALSE, NoOrigin)
    /\ UNCHANGED <<blobs, trees, commits, heads, tracking, HEAD, index, work, config, clock,
                   fin, fout>>

-----------------------------------------------------------------------------
(* diff.rs: a file content is a sequence of characters, "nl" the line feed *)

Chars == {"a", "b", "nl"}

FileContents == UNION {[1 .. n -> Chars] : n \in 0 .. MaxLen}

\* The position of the first line feed of s, 0 when s has none.
first_nl(s) ==
    IF \E k \in DOMAIN s : s[k] = "nl"
        THEN CHOOSE k \in DOMAIN s : s[k] = "nl" /\ \A i \in 1 .. (k - 1) : s[i] # "nl"
        ELSE 0

\* str::lines(): the pieces between line feeds; a final line feed ends the
\* last line and starts no new one.
RECURSIVE lines(_)
lines(s) ==
    IF s = <<>> THEN <<>>
    ELSE IF first_nl(s) = 0 THEN <<s>>
    ELSE <<SubSeq(s, 1, first_nl(s) - 1)>> \o lines(SubSeq(s, first_nl(s) + 1, Len(s)))

\* compute_diff, lines 148-159: dp[i][j], the length of a longest common
\* subsequence of the first i old lines and the first j new lines.
RECURSIVE dp(_, _, _, _)
dp(old_lines, new_lines, i, j) ==
    IF i = 0 \/ j = 0 THEN 0
    ELSE IF old_lines[i] = new_lines[j] THEN dp(old_lines, new_lines, i - 1, j - 1) + 1
    ELSE IF dp(old_lines, new_lines, i - 1, j) >= dp(old_lines, new_lines, i, j - 1)
        THEN dp(old_lines, new_lines, i - 1, j)
        ELSE dp(old_lines, new_lines, i, j - 1)

\* compute_diff, lines 162-181: the backtrack from (i, j), in the order of
\* the reversed result.
RECURSIVE backtrack(_, _, _, _)
backtrack(old_lines, new_lines, i, j) ==
    IF i = 0 /\ j = 0 THEN <<>>
    ELSE IF i > 0 /\ j > 0 /\ old_lines[i] = new_lines[j]
        THEN Append(backtrack(old_lines, new_lines, i - 1, j - 1), "Equal")
    ELSE IF i > 0 /\ (j = 0 \/ dp(old_lines, new_lines, i - 1, j)
                                  >= dp(old_lines, new_lines, i, j - 1))
        THEN Append(backtrack(old_lines, new_lines, i - 1, j), "Delete")
    ELSE Append(backtrack(old_lines, new_lines, i, j - 1), "Insert")

compute_diff(old_lines, new_lines) ==
    backtrack(old_lines, new_lines, Len(old_lines), Len(new_lines))

\* A count that takes every op of the block, whatever its type.
count_ops_any_type(diff, from, to, types) == Cardinality(from .. (to - 1))

\* The number of ops of the given types among diff[from .. to - 1].
count_ops(diff, from, to, types) == Cardinality({k \in from .. (to - 1) : diff[k] \in types})

\* show_unified_diff, lines 86-93: where the difference block starting at
\* i ends.
chunk_end(diff, i) ==
    IF \E k \in i .. Len(diff) : diff[k] = "Equal"
        THEN CHOOSE k \in i .. Len(diff) :
                 diff[k] = "Equal" /\ \A m \in i .. (k - 1) : diff[m] # "Equal"
        ELSE Len(diff) + 1

\* show_unified_diff, lines 108-130: the header and the printed lines of the
\* block diff[i .. e - 1].
hunk(diff, old_lines, new_lines, i, e, old_line_num, new_line_num) ==
    [old_start |-> old_line_num,
     old_count |-> count_ops(diff, i, e, {"Delete", "Equal"}),
     new_start |-> new_line_num,
     new_count |-> count_ops(diff, i, e, {"Insert", "Equal"}),
     body |-> [k \in 1 .. (e - i) |->
                 IF diff[i + k - 1] = "Delete"
                     THEN <<"-", old_lines[old_line_num
                                           + count_ops(diff, i, i + k - 1, {"Delete"})]>>
                     ELSE <<"+", new_lines[new_line_num
                                           + count_ops(diff, i, i + k - 1, {"Insert"})]>>]]

\* show_unified_diff, lines 83-136: the hunks printed from position i on.
RECURSIVE hunks_from(_, _, _, _, _, _)
hunks_from(diff, old_lines, new_lines, i, old_line_num, new_line_num) ==
    IF i > Len(diff) THEN <<>>
    ELSE IF diff[i] = "Equal"
        THEN hunks_from(diff, old_lines, new_lines, i + 1, old_line_num + 1, new_line_num + 1)
    ELSE <<hunk(diff, old_lines, new_lines, i, chunk_end(diff, i), old_line_num, new_line_num)>>
            \o hunks_from(diff, old_lines, new_lines, chunk_end(diff, i),
                          old_line_num + count_ops(diff, i, chunk_end(diff, i), {"Delete"}),
                          new_line_num + count_ops(diff, i, chunk_end(diff, i), {"Insert"}))

\* show_unified_diff: the hunks printed for two contents.
show_unified_diff(old_content, new_content) ==
    hunks_from(compute_diff(lines(old_content), lines(new_content)),
               lines(old_content), lines(new_content), 1, 1, 1)

\* The lines of a hunk body that carry the given sign.
signed_lines(body, sign) ==
    LET RECURSIVE sel(_)
        sel(k) == IF k > Len(body) THEN <<>>
                  ELSE IF body[k][1] = sign THEN <<body[k][2]>> \o sel(k + 1)
                  ELSE sel(k + 1)
    IN  sel(1)

\* The apply pass on lines: the old lines from `pos` on with hunks k.. applied,
\* each hunk removing its '-' lines at old_start and inserting its '+' lines.
RECURSIVE apply_hunks(_, _, _, _)
apply_hunks(hunks, k, old_lines, pos) ==
    IF k > Len(hunks) THEN SubSeq(old_lines, pos, Len(old_lines))
    ELSE SubSeq(old_lines, pos, hunks[k].old_start - 1)
            \o signed_lines(hunks[k].body, "+")
            \o apply_hunks(hunks, k + 1, old_lines,
                           hunks[k].old_start + Len(signed_lines(hunks[k].body, "-")))

\* A text file of the given lines: every line ends with a line feed.
RECURSIVE unlines(_)
unlines(ls) == IF ls = <<>> THEN <<>> ELSE Head(ls) \o <<"nl">> \o unlines(Tail(ls))

\* The diff specification: two file contents are drawn and diffed.
InitDiff ==
    /\ blobs = [r \in Repos |-> {}]
    /\ trees = [r \in Repos |-> {}]
    /\ commits = [r \in Repos |-> {}]
    /\ heads = [r \in Repos |-> [b \in Branches |-> None]]
    /\ tracking = [r \in Repos |-> [n \in RemoteNames |-> [b \in Branches |-> None]]]
    /\ HEAD = [r \in Repos |-> "main"]
    /\ index = [r \in Repos |-> EmptyEntries]
    /\ work = [r \in Repos |-> [p \in Paths |-> NoFile]]
    /\ config = [r \in Repos |-> [n \in RemoteNames |-> ""]]
    /\ stash = [r \in Repos |-> <<>>]
    /\ clock = 1
    /\ last = [op |-> "none"]
    /\ fin \in [old : FileContents, new : FileContents]
    /\ fout = [done |-> FALSE, hunks |-> <<>>, applied |-> <<>>]

ShowDiff ==
    /\ ~fout.done
    /\ fout' = [done |-> TRUE,
                hunks |-> show_unified_diff(fin.old, fin.new),
                applied |-> apply_hunks(show_unified_diff(fin.old, fin.new), 1,
                                        lines(fin.old), 1)]
    /\ UNCHANGED <<repoVars, fin>>

NextDiff == ShowDiff

SpecDiff == InitDiff /\ [][NextDiff]_vars

-----------------------------------------------------------------------------
(* The user's own edits of the working tree *)

\* A file under work_dir is written with new content, created or deleted.
EditFile(r, p, c) ==
    /\ work[r][p] # c
    /\ work' = [work EXCEPT ![r][p] = c]
    /\ last' = Report("edit", r, "", "", "edited", {}, FALSE)
    /\ UNCHANGED <<blobs, trees, commits, heads, tracking, HEAD, index, config, stash,
                   clock, fin, fout>>

\* The same edit made as time passes.
EditLater(r, p, c) ==
    /\ clock < MaxTime
    /\ work[r][p] # c
    /\ work' = [work EXCEPT ![r][p] = c]
    /\ clock' = clock + 1
    /\ last' = Report("edit", r, "", "", "edited", {}, FALSE)
    /\ UNCHANGED <<blobs, trees, commits, heads, tracking, HEAD, index, config, stash,
                   fin, fout>>

\* add <path> (spec 4.D, 4.L): the file's bytes are stored as a blob and the
\* path is staged with the blob's hash.
Add(r, p) ==
    /\ clock < MaxTime
    /\ work[r][p] # NoFile
    /\ index[r][p] # hash_content(work[r][p])
    /\ blobs' = [blobs EXCEPT ![r] = @ \cup {work[r][p]}]
    /\ index' = [index EXCEPT ![r][p] = hash_content(work[r][p])]
    /\ clock' = clock + 1
    /\ last' = Report("add", r, "", "", "added", {}, FALSE)
    /\ UNCHANGED <<trees, commits, heads, tracking, HEAD, work, config, stash, fin, fout>>

-----------------------------------------------------------------------------
(* The repository specification: a local repository with two branches,    *)
(* built by init, add, commit, branch and checkout, and a remote           *)
(* repository fresh from init that the local one names origin.             *)

\* The trees one commit away from `entries`: x rewritten with content 2 or
\* 3, x deleted, or y added with content 2.
OneChange(entries) ==
    {[entries EXCEPT !["x"] = h] : h \in {hash_content(2), hash_content(3), None}}
        \cup {[entries EXCEPT !["y"] = hash_content(2)]}

Shapes == {"diverged", "fast-forward", "behind", "equal", "unrelated", "unborn"}

\* The commits of a history of the given shape: A is the first commit, O the
\* commit on main and T the commit on b.
History(shape, tb, to, tt) ==
    LET tree(e) == tree_object(e, SortedOrder(e))
        A == new_commit(tree(tb).hash, None, "Ann", "base", 0)
        O == new_commit(tree(to).hash, IF shape = "unrelated" THEN None ELSE A.hash,
                        "Ann", "ours", 0)
        T == new_commit(tree(tt).hash, IF shape = "unrelated" THEN None ELSE A.hash,
                        "Ann", "theirs", 0)
    IN  CASE shape = "diverged" ->
                [commits |-> {A, O, T}, trees |-> {tree(tb), tree(to), tree(tt)},
                 main |-> O.hash, b |-> T.hash, checked_out |-> to]
          [] shape = "fast-forward" ->
                [commits |-> {A, T}, trees |-> {tree(tb), tree(tt)},
                 main |-> A.hash, b |-> T.hash, checked_out |-> tb]
          [] shape = "behind" ->
                [commits |-> {A, O}, trees |-> {tree(tb), tree(to)},
                 main |-> O.hash, b |-> A.hash, checked_out |-> to]
          [] shape = "equal" ->
                [commits |-> {A}, trees |-> {tree(tb)},
                 main |-> A.hash, b |-> A.hash, checked_out |-> tb]
          [] shape = "unrelated" ->
                [commits |-> {O, T}, trees |-> {tree(to), tree(tt)},
                 main |-> O.hash, b |-> T.hash, checked_out |-> to]
          [] shape = "unborn" ->
                [commits |-> {A}, trees |-> {tree(tb)},
                 main |-> A.hash, b |-> None, checked_out |-> tb]

\* The first commit's tree: file x with content 1 and no file y.
BaseTrees == {[p \in Paths |-> IF p = "x" THEN hash_content(1) ELSE None]}

InitFrom(remote_head) ==
    \E shape \in Shapes, tb \in BaseTrees :
      \E to \in OneChange(tb), tt \in OneChange(tb) :
        \* a shape that has no commit O (or T) takes one value of to (or tt)
        /\ shape \in {"fast-forward", "equal", "unborn"}
              => to = [tb EXCEPT !["y"] = hash_content(2)]
        /\ shape \in {"behind", "equal", "unborn", "unrelated"}
              => tt = [tb EXCEPT !["y"] = hash_content(2)]
        /\ LET h == History(shape, tb, to, tt)
           IN
            /\ commits = [r \in Repos |-> IF r = "local" THEN h.commits ELSE {}]
            /\ trees = [r \in Repos |-> IF r = "local" THEN h.trees ELSE {}]
            /\ blobs = [r \in Repos |->
                          IF r = "local"
                              THEN {blob_content(t.entries[p]) :
                                      <<t, p>> \in {<<u, q>> \in h.trees \X Paths :
                                                      u.entries[q] # None}}
                              ELSE {}]
            /\ heads = [r \in Repos |->
                          IF r = "local" THEN [main |-> h.main, b |-> h.b]
                          ELSE [br \in Branches |-> None]]
            /\ tracking = [r \in Repos |-> [n \in RemoteNames |-> [br \in Branches |-> None]]]
            /\ HEAD = [r \in Repos |-> IF r = "local" THEN "main" ELSE remote_head]
            /\ index = [r \in Repos |-> IF r = "local" THEN h.checked_out ELSE EmptyEntries]
            /\ work = [r \in Repos |->
                         IF r = "local"
                             THEN write_tree_files([p \in Paths |-> NoFile], h.checked_out)
                             ELSE [p \in Paths |-> NoFile]]
            /\ config = [r \in Repos |->
                           IF r = "local" THEN [origin |-> "remote", up |-> NetworkUrl]
                           ELSE [n \in RemoteNames |-> NoUrl]]
            /\ stash = [r \in Repos |-> <<>>]
            /\ clock = 1
            /\ last = Report("none", "", "", "", "", {}, FALSE)
            /\ fin = [x |-> None]
            /\ fout = [done |-> FALSE]

\* The other repository has been initialised and holds nothing.
Init == InitFrom("main")

\* The other directory does not exist.
InitClone == InitFrom(NoHead)

\* Merges run in the repository the branches are pushed to.
MergeStep == \E branch_name \in Branches, author \in Authors \cup {NoAuthor} :
                Merge("remote", branch_name, author)

PushStep == \E remote_name \in RemoteNames, branch_name \in Branches :
                Push("local", remote_name, branch_name)

EditStep == \E p \in Paths, c \in Contents \cup {NoFile} : EditFile("remote", p, c)

Next == MergeStep \/ PushStep

Spec == Init /\ [][Next]_vars

\* The remotes specification: the local repository points its remotes at
\* the other repository, at a network address or at a path that does not
\* exist, and pushes.
RemoteUrls == {"remote", NetworkUrl, "gone"}

SetUrlStep == \E name \in RemoteNames, new_url \in RemoteUrls :
                 SetRemoteUrl("local", name, new_url)

NextRemotes == PushStep \/ SetUrlStep

SpecRemotes == Init /\ [][NextRemotes]_vars

\* The clone specification: the local repository is cloned into the other
\* directory and pushes its branches to it.
CloneStep == \E url \in {"local", NetworkUrl} : Clone(url, "remote")

NextClone == CloneStep \/ PushStep

SpecClone == InitClone /\ [][NextClone]_vars

\* The push specification: the local repository pushes its branches while
\* the remote's working tree is edited by hand.
NextPush == PushStep \/ EditStep

SpecPush == Init /\ [][NextPush]_vars

-----------------------------------------------------------------------------
(* The stash specification: in a repository of two commits the user edits  *)
(* files, stages them and runs the stash commands.                         *)

StashMessages == {NoMessage}

\* The local repository is one commit ahead of its branch b.
InitStash ==
    /\ Init
    /\ heads["local"]["b"] # None
    /\ LoadCommit(commits["local"], heads["local"]["main"]).parent = heads["local"]["b"]

\* What the user writes into a file: new content, or the file is deleted.
EditContents == {NoFile, NumBlobs}

StashPushStep == \E message \in StashMessages, order_i \in Orders, order_w \in Orders :
                    StashPush("local", message, order_i, order_w)

StashPopStep == \E n \in 0 .. MaxStash : StashPop("local", n)

StashDropStep == \E n \in 0 .. MaxStash : StashDrop("local", n)

StashShowStep == \E n \in 0 .. MaxStash : StashShow("local", n)

StashClearStep == StashClear("local")

EditLaterStep == \E p \in Paths, c \in EditContents : EditLater("local", p, c)

AddStep == \E p \in Paths : Add("local", p)

NextStash ==
    \/ StashPushStep
    \/ StashPopStep
    \/ StashDropStep
    \/ StashClearStep
    \/ EditLaterStep
    \/ AddStep

SpecStash == InitStash /\ [][NextStash]_vars

\* The stash list addressed by index: entries are saved, and popped, dropped
\* and shown at every index up to MaxStash.
NextStashIndex ==
    \/ StashPushStep
    \/ StashPopStep
    \/ StashDropStep
    \/ StashShowStep
    \/ EditLaterStep

SpecStashIndex == InitStash /\ [][NextStashIndex]_vars

-----------------------------------------------------------------------------
(* The copy specification: two invocations of copy_missing_objects, a and  *)
(* b, run at the same time into one objects/ directory. Each takes its     *)
(* source's files in the order read_dir gives them, tests whether the     *)
(* destination file exists, and copies the file if it did not. fin holds   *)
(* the two sources and the destination as it was; fout the destination,    *)
(* the files each invocation has not come to yet (todo) and the file it    *)
(* found missing and is about to copy (cur).                               *)

Copiers == {"a", "b"}

\* Commit objects of two hashes, each written at time 0 or at time 1.
CopyCommits ==
    {new_commit(EmptyTreeHash, None, "Ann", m, t) : m \in GraphMessages, t \in {0, 1}}

\* An objects/ directory holds one file per hash.
ObjectDirs == {S \in SUBSET CopyCommits : \A c, d \in S : c.hash = d.hash => c = d}

\* dst_obj.exists()
dst_exists(dst, h) == \E d \in dst : d.hash = h

\* fs::copy(&src_obj, &dst_obj): the destination file is created, or
\* rewritten if it is there, with the source file's bytes.
fs_copy(dst, obj) == {d \in dst : d.hash # obj.hash} \cup {obj}

InitCopy ==
    /\ blobs = [r \in Repos |-> {}]
    /\ trees = [r \in Repos |-> {}]
    /\ commits = [r \in Repos |-> {}]
    /\ heads = [r \in Repos |-> [b \in Branches |-> None]]
    /\ tracking = [r \in Repos |-> [n \in RemoteNames |-> [b \in Branches |-> None]]]
    /\ HEAD = [r \in Repos |-> "main"]
    /\ index = [r \in Repos |-> EmptyEntries]
    /\ work = [r \in Repos |-> [p \in Paths |-> NoFile]]
    /\ config = [r \in Repos |-> [n \in RemoteNames |-> ""]]
    /\ stash = [r \in Repos |-> <<>>]
    /\ clock = 1
    /\ last = [op |-> "none"]
    /\ \E src \in [Copiers -> ObjectDirs], before \in ObjectDirs :
          /\ fin = [src |-> src, before |-> before]
          /\ fout = [dst |-> before,
                     todo |-> [i \in Copiers |-> {c.hash : c \in src[i]}],
                     cur |-> [i \in Copiers |-> None]]

\* copy_missing_objects, the test `!dst_obj.exists()` on the next file.
CopyCheck(i) ==
    /\ fout.cur[i] = None
    /\ \E h \in fout.todo[i] :
          fout' = IF dst_exists(fout.dst, h)
                      THEN [fout EXCEPT !.todo[i] = @ \ {h}]
                      ELSE [fout EXCEPT !.cur[i] = h]
    /\ UNCHANGED <<repoVars, fin>>

\* copy_missing_objects, the copy of the file found missing.
CopyFile(i) ==
    /\ fout.cur[i] # None
    /\ fout' = [fout EXCEPT !.dst = fs_copy(@, LoadCommit(fin.src[i], fout.cur[i])),
                            !.todo[i] = @ \ {fout.cur[i]},
                            !.cur[i] = None]
    /\ UNCHANGED <<repoVars, fin>>

NextCopy == \E i \in Copiers : CopyCheck(i) \/ CopyFile(i)

SpecCopy == InitCopy /\ [][NextCopy]_vars

-----------------------------------------------------------------------------
(* Reference definitions the properties are stated with *)

RECURSIVE ReachFrom(_, _)
\* The hashes reachable from the hashes in `set` by zero or more parent
\* steps over the stored commits.
ReachFrom(store, set) ==
    LET next == set \cup {c.parent : c \in {d \in store : d.hash \in set /\ d.parent # None}}
    IN  IF next = set THEN set ELSE ReachFrom(store, next)

AncestorsOf(store, h) == ReachFrom(store, {h})

IsAncestorOf(store, a, d) == a \in AncestorsOf(store, d)

-----------------------------------------------------------------------------
(* The synchronisation specification: the local repository holds A, its    *)
(* child O on main and its child T on b; the remote's main is unborn or at *)
(* A, O, T or R, a child of O, and the remote holds that commit's history, *)
(* committed there at time 0 or 1. The local repository pushes, fetches    *)
(* and pulls.                                                              *)

SyncTips == {"none", "A", "O", "T", "R"}

\* The blobs the entries of the given trees name.
BlobsOf(treeSet) ==
    {blob_content(t.entries[p]) :
        <<t, p>> \in {<<u, q>> \in treeSet \X Paths : u.entries[q] # None}}

InitSync ==
    \E tb \in BaseTrees, tip \in SyncTips, stamp \in {0, 1} :
      \E tt \in {[tb EXCEPT !["x"] = hash_content(3)], [tb EXCEPT !["y"] = hash_content(2)]} :
        LET h == History("diverged", tb, [tb EXCEPT !["x"] = hash_content(2)], tt)
            R == new_commit(LoadCommit(h.commits, h.b).tree, h.main, "Ann", "remote", 0)
            rtip == CASE tip = "none" -> None
                      [] tip = "A" -> LoadCommit(h.commits, h.main).parent
                      [] tip = "O" -> h.main
                      [] tip = "T" -> h.b
                      [] tip = "R" -> R.hash
            rhist == {c \in h.commits \cup {R} : c.hash \in ReachFrom(h.commits \cup {R}, {rtip})}
            rtrees == {t \in h.trees : \E c \in rhist : c.tree = t.hash}
        IN  /\ tip = "none" => stamp = 0
            /\ commits = [r \in Repos |->
                            IF r = "local" THEN h.commits
                            ELSE {[c EXCEPT !.timestamp = stamp] : c \in rhist}]
            /\ trees = [r \in Repos |-> IF r = "local" THEN h.trees ELSE rtrees]
            /\ blobs = [r \in Repos |-> BlobsOf(IF r = "local" THEN h.trees ELSE rtrees)]
            /\ heads = [r \in Repos |->
                          IF r = "local" THEN [main |-> h.main, b |-> h.b]
                          ELSE [main |-> rtip, b |-> None]]
            /\ tracking = [r \in Repos |-> [n \in RemoteNames |-> [br \in Branches |-> None]]]
            /\ HEAD = [r \in Repos |-> "main"]
            /\ index = [r \in Repos |->
                          IF r = "local" THEN h.checked_out
                          ELSE IF rtip = None THEN EmptyEntries
                          ELSE LoadTree(h.trees, LoadCommit(rhist, rtip).tree).entries]
            /\ work = [r \in Repos |-> write_tree_files([p \in Paths |-> NoFile], index[r])]
            /\ config = [r \in Repos |->
                           IF r = "local" THEN [origin |-> "remote", up |-> NetworkUrl]
                           ELSE [n \in RemoteNames |-> NoUrl]]
            /\ stash = [r \in Repos |-> <<>>]
            /\ clock = 1
            /\ last = Report("none", "", "", "", "", {}, FALSE)
            /\ fin = [x |-> None]
            /\ fout = [done |-> FALSE]

FetchStep == \E remote_name \in RemoteNames, branch_name \in Branches :
                Fetch("local", remote_name, branch_name)

PullStep == \E remote_name \in RemoteNames, branch_name \in Branches :
                Pull("local", remote_name, branch_name)

MergeLocalStep == \E branch_name \in Branches, author \in Authors :
                     Merge("local", branch_name, author)

NextSync ==
    \/ PushStep
    \/ FetchStep
    \/ PullStep

SpecSync == InitSync /\ [][NextSync]_vars

\* The object-store specification: the remote's main is at R, whose tree
\* holds both paths, and its commits were written there at time 1; the local
\* repository also merges and stashes.
InitObjects ==
    /\ InitSync
    /\ \E c \in commits["remote"] : c.message = "remote" /\ c.timestamp = 1
    /\ Keys(index["remote"]) = Paths

NextObjects ==
    \/ PushStep
    \/ FetchStep
    \/ PullStep
    \/ MergeLocalStep
    \/ StashPushStep
    \/ StashPopStep

SpecObjects == InitObjects /\ [][NextObjects]_vars

-----------------------------------------------------------------------------
(* The cut-off specification: the local repository pushes, fetches and     *)
(* pulls as in the synchronisation specification, and one command - a      *)
(* merge, push, fetch, pull or stash push - is cut off after any of its    *)
(* writes but the last, which ends the behaviour (fout.done). A command's  *)
(* writes are named in the order the code makes them; "objects" are the    *)
(* file copies of copy_missing_objects, of which a cut leaves any part.    *)

\* A merge that moves the branch before it stores the tree and the commit.
merge_writes_ref_first == <<"heads", "trees", "commits", "work", "HEAD">>

\* merge: store_tree (225), store_commit (68), update_branch (69 / 27) and
\* the files (72 / checkout 28).
merge_writes == <<"trees", "commits", "heads", "work", "HEAD">>

\* push_to_local_remote: the copies (72), the remote's branch ref (93), its
\* working directory and index (98) and the local tracking ref (115).
push_writes == <<"objects", "heads", "work", "index", "tracking">>

\* fetch_from_local_remote: the copies (88) and the tracking ref (103).
fetch_writes == <<"objects", "tracking">>

\* pull: the fetch, update_branch (33 / 41) and the checkout (34 / 42).
pull_writes == <<"objects", "tracking", "heads", "work", "HEAD">>

\* A stash push that clears the directory before it saves the list.
stash_push_writes_clears_first ==
    <<"trees", "blobs", "trees2", "commits", "work", "stash", "index">>

\* stash_push: the index tree (73), the working tree and its blobs (74), the
\* stash commit (98), the stash list (110), the cleared directory (113) and
\* the empty index (117).
stash_push_writes == <<"trees", "blobs", "trees2", "commits", "stash", "work", "index">>

\* The first k writes of `order` have been made.
Written(order, k, name) == \E i \in 1 .. k : i <= Len(order) /\ order[i] = name

\* The files of src that copy_missing_objects would copy into dst.
MissingObjects(src, dst) == {o \in src : \A d \in dst : d.hash # o.hash}

\* The repository after the first k writes of a command whose writes, made
\* in `order`, leave the values w.
CutTo(order, k, w) ==
    /\ blobs' = IF Written(order, k, "blobs") \/ Written(order, k, "objects")
                    THEN w.blobs ELSE blobs
    /\ trees' = IF Written(order, k, "trees2") THEN w.trees2
                ELSE IF Written(order, k, "trees") \/ Written(order, k, "objects")
                    THEN w.trees ELSE trees
    /\ commits' = IF Written(order, k, "commits") \/ Written(order, k, "objects")
                      THEN w.commits ELSE commits
    /\ heads' = IF Written(order, k, "heads") THEN w.heads ELSE heads
    /\ tracking' = IF Written(order, k, "tracking") THEN w.tracking ELSE tracking
    /\ HEAD' = IF Written(order, k, "HEAD") THEN w.HEAD ELSE HEAD
    /\ index' = IF Written(order, k, "index") THEN w.index ELSE index
    /\ work' = IF Written(order, k, "work") THEN w.work ELSE work
    /\ stash' = IF Written(order, k, "stash") THEN w.stash ELSE stash
    /\ fout' = [done |-> TRUE]
    /\ UNCHANGED <<config, clock, fin>>

\* What no command has written.
Unwritten ==
    [blobs |-> blobs, trees |-> trees, trees2 |-> trees, commits |-> commits, heads |-> heads,
     tracking |-> tracking, HEAD |-> HEAD, index |-> index, work |-> work, stash |-> stash]

\* merge(repo, branch_name, author) cut off after its first k writes.
CutMerge(r, branch_name, author, k) ==
    LET current_branch == HEAD[r]
        current_commit == heads[r][HEAD[r]]
        merge_commit == heads[r][branch_name]
        ff == is_ancestor(commits[r], current_commit, merge_commit)
        lca == find_common_ancestor(commits[r], current_commit, merge_commit)
    IN  /\ current_branch # branch_name
        /\ current_commit # None /\ merge_commit # None /\ current_commit # merge_commit
        /\ ~ff.err
        /\ last' = Report("merge", r, "", branch_name, "cut off", {}, FALSE)
        /\ IF ff.val
             THEN LET co == checkout(commits[r], trees[r], blobs[r], work[r], merge_commit)
                  IN  CutTo(merge_writes, k,
                            [Unwritten EXCEPT
                               !.heads = [heads EXCEPT
                                            ![r] = update_branch(@, current_branch, merge_commit)],
                               !.work = [work EXCEPT ![r] = co.work]])
             ELSE /\ ~lca.err /\ lca.val # None
                  /\ \E order \in Orders :
                       LET res == perform_three_way_merge(commits[r], trees[r], lca.val,
                                                          current_commit, merge_commit, order)
                           obj == merge_commit_obj(res.tree.hash, current_commit, merge_commit,
                                      IF author = NoAuthor THEN DefaultAuthor ELSE author,
                                      merge_message(branch_name, current_branch))
                       IN  /\ ~res.err /\ res.ordered
                           /\ CutTo(merge_writes, k,
                                [Unwritten EXCEPT
                                   !.trees = [trees EXCEPT ![r] = store_object(@, res.tree)],
                                   !.commits = [commits EXCEPT ![r] = store_object(@, obj)],
                                   !.heads = [heads EXCEPT
                                                ![r] = update_branch(@, current_branch, obj.hash)],
                                   !.work = [work EXCEPT
                                               ![r] = restore_tree_to_working_dir(
                                                          blobs[r], work[r], res.tree.entries).work]])

\* The stores of `into` after some of the files it lacks were copied from
\* `from`: all of them when the copies are not the last write made.
CopiedPart(from, into, k) ==
    {[blobs |-> [blobs EXCEPT ![into] = @ \cup Sb],
      trees |-> [trees EXCEPT ![into] = @ \cup St],
      commits |-> [commits EXCEPT ![into] = @ \cup Sc]] :
        <<Sb, St, Sc>> \in
            {x \in (SUBSET (blobs[from] \ blobs[into]))
                     \X (SUBSET MissingObjects(trees[from], trees[into]))
                     \X (SUBSET MissingObjects(commits[from], commits[into])) :
                k > 1 => /\ x[1] = blobs[from] \ blobs[into]
                         /\ x[2] = MissingObjects(trees[from], trees[into])
                         /\ x[3] = MissingObjects(commits[from], commits[into])}}

\* push(repo, remote, branch) to a local path cut off after its first k
\* writes.
CutPush(r, remote_name, branch_name, k) ==
    LET q == config[r][remote_name]
        commit_hash == heads[r][branch_name]
    IN  /\ path_exists(q) /\ commit_hash # None
        /\ last' = Report("push", r, remote_name, branch_name, "cut off", {}, FALSE)
        /\ \E c \in CopiedPart(r, q, k) :
             LET dirty == check_for_uncommitted_changes(index[q], work[q])
                 upd == update_remote_working_directory(c.commits[q], c.trees[q], c.blobs[q],
                                                        work[q], commit_hash)
             IN  CutTo(push_writes, k,
                       [Unwritten EXCEPT
                          !.blobs = c.blobs, !.trees = c.trees, !.commits = c.commits,
                          !.heads = [heads EXCEPT ![q][branch_name] = commit_hash],
                          !.work = IF dirty THEN work ELSE [work EXCEPT ![q] = upd.work],
                          !.index = IF dirty \/ ~upd.wrote_index THEN index
                                    ELSE [index EXCEPT ![q] = upd.index],
                          !.tracking = [tracking EXCEPT ![r]["origin"][branch_name] = commit_hash]])

\* fetch(repo, remote, branch) from a local path cut off after some of its
\* copies.
CutFetch(r, remote_name, branch_name, k) ==
    LET q == config[r][remote_name]
    IN  /\ path_exists(q)
        /\ last' = Report("fetch", r, remote_name, branch_name, "cut off", {}, FALSE)
        /\ \E c \in CopiedPart(q, r, k) :
             CutTo(fetch_writes, k,
                   [Unwritten EXCEPT
                      !.blobs = c.blobs, !.trees = c.trees, !.commits = c.commits,
                      !.tracking = IF heads[q][branch_name] # None
                                       THEN [tracking EXCEPT ![r][remote_name][branch_name] =
                                                                 heads[q][branch_name]]
                                       ELSE tracking])

\* pull(repo, remote, branch) from a local path cut off after its first k
\* writes; past the fetch there are writes only when the pull fast-forwards.
CutPull(r, remote_name, branch_name, k) ==
    LET q == config[r][remote_name]
        remote_commit == IF heads[q][branch_name] # None THEN heads[q][branch_name]
                         ELSE tracking[r][remote_name][branch_name]
        current_commit == heads[r][branch_name]
    IN  /\ path_exists(q)
        /\ last' = Report("pull", r, remote_name, branch_name, "cut off", {}, FALSE)
        /\ \E c \in CopiedPart(q, r, k) :
             LET ff == pull_is_ancestor(c.commits[r], current_commit, remote_commit)
                 moves == /\ remote_commit # None
                          /\ current_commit # remote_commit
                          /\ current_commit # None => (~ff.err /\ ff.val)
                 co == checkout(c.commits[r], c.trees[r], c.blobs[r], work[r], remote_commit)
             IN  /\ k > 2 => moves
                 /\ CutTo(pull_writes, k,
                       [Unwritten EXCEPT
                          !.blobs = c.blobs, !.trees = c.trees, !.commits = c.commits,
                          !.tracking = [tracking EXCEPT ![r][remote_name][branch_name] =
                                                            remote_commit],
                          !.heads = [heads EXCEPT
                                       ![r] = update_branch(@, branch_name, remote_commit)],
                          !.work = [work EXCEPT ![r] = co.work]])

\* stash_push(repo, message) cut off after its first k writes.
CutStashPush(r, message, order_i, order_w, k) ==
    LET index_tree == create_tree_from_index(index[r], order_i)
        working_tree == create_tree_from_working_dir(work[r], order_w)
        parent_commit == heads[r][HEAD[r]]
        msg == stash_message(message, HEAD[r], commits[r], parent_commit)
        commit == stash_commit(working_tree.hash, parent_commit, msg)
    IN  /\ ~(Keys(index[r]) = {} /\ ~has_unstaged_changes(index[r], work[r]))
        /\ {order_i[i] : i \in DOMAIN order_i} = Keys(index[r])
        /\ {order_w[i] : i \in DOMAIN order_w} = Keys(working_entries(work[r]))
        /\ last' = Report("stash push", r, "", "", "cut off", {}, FALSE)
        /\ CutTo(stash_push_writes, k,
                 [Unwritten EXCEPT
                    !.trees = [trees EXCEPT ![r] = store_object(@, index_tree)],
                    !.blobs = [blobs EXCEPT
                                 ![r] = @ \cup {work[r][p] : p \in Keys(working_tree.entries)}],
                    !.trees2 = [trees EXCEPT
                                  ![r] = store_object(store_object(@, index_tree), working_tree)],
                    !.commits = [commits EXCEPT ![r] = store_object(@, commit)],
                    !.stash = [stash EXCEPT
                                 ![r] = save_stash_entry(@,
                                            stash_entry(msg, commit.hash, parent_commit,
                                                        index_tree.hash, working_tree.hash))],
                    !.work = [work EXCEPT ![r] = clear_working_directory(@)],
                    !.index = [index EXCEPT ![r] = EmptyEntries]])

CutMergeStep ==
    \E branch_name \in Branches, k \in 1 .. (Len(merge_writes) - 1) :
        CutMerge("local", branch_name, NoAuthor, k)

CutPushStep ==
    \E remote_name \in RemoteNames, branch_name \in Branches, k \in 1 .. (Len(push_writes) - 1) :
        CutPush("local", remote_name, branch_name, k)

CutFetchStep ==
    \E remote_name \in RemoteNames, branch_name \in Branches, k \in 1 .. (Len(fetch_writes) - 1) :
        CutFetch("local", remote_name, branch_name, k)

CutPullStep ==
    \E remote_name \in RemoteNames, branch_name \in Branches, k \in 1 .. (Len(pull_writes) - 1) :
        CutPull("local", remote_name, branch_name, k)

CutStashPushStep ==
    \E order_i \in Orders, order_w \in Orders, k \in 1 .. (Len(stash_push_writes) - 1) :
        CutStashPush("local", NoMessage, order_i, order_w, k)

NextCut ==
    /\ ~fout.done
    /\ \/ PushStep
       \/ FetchStep
       \/ PullStep
       \/ CutMergeStep
       \/ CutPushStep
       \/ CutFetchStep
       \/ CutPullStep
       \/ CutStashPushStep

SpecCut == InitSync /\ [][NextCut]_vars

-----------------------------------------------------------------------------
(* The walk specification: the walks of the working directory, on a        *)
(* directory whose file names are spelled out. A file name is a sequence   *)
(* of characters (".mini_git" and "HEAD" stand for their characters), a    *)
(* path below work_dir a sequence of names. On the platforms the           *)
(* repository is built for other than Windows the backslash is a           *)
(* character of a file name like any other. fin holds the files and the    *)
(* index, fout what the command that ran has found or made.                *)

\* The paths below work_dir that may hold a regular file: x, a/b, the file
\* named a\b, .mini_git/HEAD and the file named .mini_git\x.
WalkFiles ==
    {<<<<"x">>>>, <<<<"a">>, <<"b">>>>, <<<<"a", "\\", "b">>>>,
     <<<<".mini_git">>, <<"HEAD">>>>, <<<<".mini_git", "\\", "x">>>>}

\* The contents a file of the walk specification may have.
WalkContents == {1, 2}

\* Path::to_string_lossy on a relative path: the names joined by the
\* separator.
RECURSIVE to_string_lossy(_)
to_string_lossy(path) ==
    IF Len(path) = 1 THEN path[1]
    ELSE path[1] \o <<"/">> \o to_string_lossy(Tail(path))

\* str::replace('\\', "/")
replace_backslash(s) == [i \in DOMAIN s |-> IF s[i] = "\\" THEN "/" ELSE s[i]]

\* path.strip_prefix(&repo.work_dir)?.to_string_lossy().replace('\\', "/")
relative_path(path) == replace_backslash(to_string_lossy(path))

\* path.starts_with(&repo.git_dir): the first name is .mini_git
starts_with_git_dir(path) == path[1] = <<".mini_git">>

\* The keys an index or a tree of the walk specification may have: the
\* relative paths the walks make.
WalkKeys == {relative_path(f) : f \in WalkFiles}

\* WalkDir::new(&repo.work_dir) filtered to regular files
walk_dir(files) == {f \in WalkFiles : files[f] # NoFile}

\* repo.work_dir.join(path): the file an index key names, if there is one.
joined(files, key) == {f \in walk_dir(files) : to_string_lossy(f) = key}

\* check_for_uncommitted_changes, on the spelled-out directory.
check_for_uncommitted_changes_on_disk(idx, files) ==
    \/ \E key \in Keys(idx) :
          IF joined(files, key) # {}
              THEN \E f \in joined(files, key) : hash_content(files[f]) # idx[key]
              ELSE TRUE
    \/ \E f \in walk_dir(files) :
          /\ ~starts_with_git_dir(f)
          /\ relative_path(f) \notin Keys(idx)

\* create_tree_from_working_dir, on the spelled-out directory: the entries
\* of the tree. `pick` is the file whose insert into the HashMap came last
\* for each key.
create_tree_from_working_dir_on_disk(files, pick) ==
    [key \in WalkKeys |->
        IF \E f \in walk_dir(files) : ~starts_with_git_dir(f) /\ relative_path(f) = key
            THEN hash_content(files[pick[key]])
            ELSE None]

\* clear_working_directory and the clearing loop of
\* update_remote_working_directory: every entry of work_dir whose file
\* name is not .mini_git is removed.
clear_working_directory_on_disk(files) ==
    [f \in WalkFiles |-> IF f[1] = <<".mini_git">> THEN files[f] ELSE NoFile]

InitWalk ==
    /\ blobs = [r \in Repos |-> {}]
    /\ trees = [r \in Repos |-> {}]
    /\ commits = [r \in Repos |-> {}]
    /\ heads = [r \in Repos |-> [b \in Branches |-> None]]
    /\ tracking = [r \in Repos |-> [n \in RemoteNames |-> [b \in Branches |-> None]]]
    /\ HEAD = [r \in Repos |-> "main"]
    /\ index = [r \in Repos |-> EmptyEntries]
    /\ work = [r \in Repos |-> [p \in Paths |-> NoFile]]
    /\ config = [r \in Repos |-> [n \in RemoteNames |-> ""]]
    /\ stash = [r \in Repos |-> <<>>]
    /\ clock = 1
    /\ last = [op |-> "none"]
    /\ fin \in [files : [WalkFiles -> WalkContents \cup {NoFile}],
                index : [WalkKeys -> {hash_content(c) : c \in WalkContents} \cup {None}]]
    /\ fin.files[<<<<".mini_git">>, <<"HEAD">>>>] = 1
    /\ \A key \in Keys(fin.index) :
          \E f \in WalkFiles : ~starts_with_git_dir(f) /\ to_string_lossy(f) = key
    /\ fout = [op |-> "none"]

\* The push-side check runs.
WalkCheck ==
    /\ fout.op = "none"
    /\ fout' = [op |-> "check",
                dirty |-> check_for_uncommitted_changes_on_disk(fin.index, fin.files)]
    /\ UNCHANGED <<repoVars, fin>>

\* stash push takes its snapshot of the working directory.
WalkSnapshot ==
    /\ fout.op = "none"
    /\ \E pick \in [WalkKeys -> WalkFiles] :
          /\ \A key \in WalkKeys :
                IF \E f \in walk_dir(fin.files) :
                       ~starts_with_git_dir(f) /\ relative_path(f) = key
                    THEN /\ pick[key] \in walk_dir(fin.files)
                         /\ ~starts_with_git_dir(pick[key])
                         /\ relative_path(pick[key]) = key
                    ELSE pick[key] = <<<<"x">>>>
          /\ fout' = [op |-> "snapshot",
                      entries |-> create_tree_from_working_dir_on_disk(fin.files, pick)]
    /\ UNCHANGED <<repoVars, fin>>

\* The working directory is cleared.
WalkClear ==
    /\ fout.op = "none"
    /\ fout' = [op |-> "clear", files |-> clear_working_directory_on_disk(fin.files)]
    /\ UNCHANGED <<repoVars, fin>>

NextWalk == WalkCheck \/ WalkSnapshot \/ WalkClear

SpecWalk == InitWalk /\ [][NextWalk]_vars

-----------------------------------------------------------------------------
(* The configuration specification: remote add, set-url and remove on the  *)
(* text of the config file. The text is a sequence of pieces: "nl" the     *)
(* line feed, "tab" the tab, and the pieces the commands write and test    *)
(* for, a name or a url being one piece. fin holds the text and, beside    *)
(* it, the map name -> url the commands are meant to maintain; fout holds  *)
(* what the last command did.                                              *)

\* The urls given to the commands: two repositories, two network urls and a
\* local path that does not exist.
ConfigUrls == {"remote", "local", NetworkUrl, QueryUrl, "gone"}

\* The pieces of a url: a url is one piece but for the text "url = " in it.
url_pieces(url) ==
    IF url = QueryUrl THEN <<"https://example.com/repo.git?", "url = ", "main">>
    ELSE <<url>>

\* init.rs: "[core]\n\trepositoryformatversion = 0\n"
InitConfig == <<"[core]", "nl", "tab", "repositoryformatversion = 0", "nl">>

\* str::trim, the tab being the whitespace of the file
RECURSIVE trim_start(_)
trim_start(s) == IF s # <<>> /\ s[1] = "tab" THEN trim_start(Tail(s)) ELSE s

RECURSIVE trim_end(_)
trim_end(s) ==
    IF s # <<>> /\ s[Len(s)] = "tab" THEN trim_end(SubSeq(s, 1, Len(s) - 1)) ELSE s

trim(s) == trim_end(trim_start(s))

\* format!("[remote \"{}\"]", name)
remote_header(name) == <<"[remote \"", name, "\"]">>

\* line_trimmed.starts_with('[') && line_trimmed.ends_with(']')
is_section(line) ==
    /\ line # <<>>
    /\ line[1] \in {"[core]", "[remote \""}
    /\ line[Len(line)] \in {"[core]", "\"]"}

\* str::contains
contains(s, sub) ==
    \E i \in 1 .. (Len(s) - Len(sub) + 1) : SubSeq(s, i, i + Len(sub) - 1) = sub

\* new_lines.join("\n")
RECURSIVE join_nl(_)
join_nl(ls) ==
    IF ls = <<>> THEN <<>>
    ELSE IF Len(ls) = 1 THEN ls[1]
    ELSE ls[1] \o <<"nl">> \o join_nl(Tail(ls))

\* Some line of the text is the header of the remote.
has_header(content, name) ==
    \E i \in DOMAIN lines(content) : trim(lines(content)[i]) = remote_header(name)

\* add_remote(repo, name, url): a local path must exist; a name whose
\* header is in the text is an error; else the section is appended.
add_remote(content, name, url) ==
    IF is_local_path(url) /\ ~path_exists(url) THEN [err |-> TRUE, content |-> content]
    ELSE IF contains(content, remote_header(name)) THEN [err |-> TRUE, content |-> content]
    ELSE [err |-> FALSE,
          content |-> content \o <<"nl">> \o remote_header(name)
                         \o <<"nl", "tab", "url = ">> \o url_pieces(url)
                         \o <<"nl", "tab", "fetch = ", name, "nl">>]

\* remove_remote, lines 99-119: the lines from the header up to the next
\* section are left out.
RECURSIVE remove_lines(_, _, _)
remove_lines(ls, header, skip_section) ==
    IF ls = <<>> THEN <<>>
    ELSE IF trim(Head(ls)) = header THEN remove_lines(Tail(ls), header, TRUE)
    ELSE IF skip_section
        THEN IF is_section(trim(Head(ls)))
                 THEN <<Head(ls)>> \o remove_lines(Tail(ls), header, FALSE)
                 ELSE remove_lines(Tail(ls), header, TRUE)
    ELSE <<Head(ls)>> \o remove_lines(Tail(ls), header, FALSE)

\* remove_remote(repo, name)
remove_remote(content, name) ==
    IF ~has_header(content, name) THEN [err |-> TRUE, content |-> content]
    ELSE [err |-> FALSE,
          content |-> join_nl(remove_lines(lines(content), remote_header(name), FALSE))]

\* set_remote_url, lines 166-193: the url line of the section is replaced.
RECURSIVE set_url_lines(_, _, _, _)
set_url_lines(ls, header, new_url, in_remote_section) ==
    IF ls = <<>> THEN <<>>
    ELSE IF trim(Head(ls)) = header
        THEN <<Head(ls)>> \o set_url_lines(Tail(ls), header, new_url, TRUE)
    ELSE IF in_remote_section
        THEN IF is_section(trim(Head(ls)))
                 THEN <<Head(ls)>> \o set_url_lines(Tail(ls), header, new_url, FALSE)
             ELSE IF trim(Head(ls)) # <<>> /\ trim(Head(ls))[1] = "url = "
                 THEN <<<<"tab", "url = ">> \o url_pieces(new_url)>>
                          \o set_url_lines(Tail(ls), header, new_url, TRUE)
             ELSE <<Head(ls)>> \o set_url_lines(Tail(ls), header, new_url, TRUE)
    ELSE <<Head(ls)>> \o set_url_lines(Tail(ls), header, new_url, FALSE)

\* set_remote_url(repo, name, new_url)
set_remote_url(content, name, new_url) ==
    IF is_local_path(new_url) /\ ~path_exists(new_url)
        THEN [err |-> TRUE, content |-> content]
    ELSE IF ~has_header(content, name) THEN [err |-> TRUE, content |-> content]
    ELSE [err |-> FALSE,
          content |-> join_nl(set_url_lines(lines(content), remote_header(name),
                                            new_url, FALSE))]

\* get_remote_url of push.rs and pull.rs, lines 276-295: the first url line
\* of the section, with every "url = " taken out.
RECURSIVE url_of_lines(_, _, _)
url_of_lines(ls, header, in_remote_section) ==
    IF ls = <<>> THEN [err |-> TRUE, val |-> <<>>]
    ELSE IF trim(Head(ls)) = header THEN url_of_lines(Tail(ls), header, TRUE)
    ELSE IF in_remote_section
        THEN IF is_section(trim(Head(ls))) THEN [err |-> TRUE, val |-> <<>>]
             ELSE IF trim(Head(ls)) # <<>> /\ trim(Head(ls))[1] = "url = "
                 THEN [err |-> FALSE,
                       val |-> SelectSeq(trim(Head(ls)), LAMBDA piece : piece # "url = ")]
             ELSE url_of_lines(Tail(ls), header, TRUE)
    ELSE url_of_lines(Tail(ls), header, FALSE)

\* get_remote_url(repo, remote_name) on the text of the config file.
get_remote_url_of_text(content, remote_name) ==
    url_of_lines(lines(content), remote_header(remote_name), FALSE)

\* The map name -> url: add of a name that is there fails, set-url and
\* remove of a name that is not there fail, and a local url must exist.
MapAdd(m, name, url) ==
    IF (is_local_path(url) /\ ~path_exists(url)) \/ m[name] # NoUrl
        THEN [err |-> TRUE, urls |-> m]
        ELSE [err |-> FALSE, urls |-> [m EXCEPT ![name] = url]]

MapSetUrl(m, name, url) ==
    IF (is_local_path(url) /\ ~path_exists(url)) \/ m[name] = NoUrl
        THEN [err |-> TRUE, urls |-> m]
        ELSE [err |-> FALSE, urls |-> [m EXCEPT ![name] = url]]

MapRemove(m, name) ==
    IF m[name] = NoUrl THEN [err |-> TRUE, urls |-> m]
    ELSE [err |-> FALSE, urls |-> [m EXCEPT ![name] = NoUrl]]

InitConfigSpec ==
    /\ blobs = [r \in Repos |-> {}]
    /\ trees = [r \in Repos |-> {}]
    /\ commits = [r \in Repos |-> {}]
    /\ heads = [r \in Repos |-> [b \in Branches |-> None]]
    /\ tracking = [r \in Repos |-> [n \in RemoteNames |-> [b \in Branches |-> None]]]
    /\ HEAD = [r \in Repos |-> "main"]
    /\ index = [r \in Repos |-> EmptyEntries]
    /\ work = [r \in Repos |-> [p \in Paths |-> NoFile]]
    /\ config = [r \in Repos |-> [n \in RemoteNames |-> NoUrl]]
    /\ stash = [r \in Repos |-> <<>>]
    /\ clock = 1
    /\ last = [op |-> "none"]
    /\ fin = [content |-> InitConfig, urls |-> [n \in RemoteNames |-> NoUrl]]
    /\ fout = [op |-> "none", name |-> "", url |-> NoUrl, err |-> FALSE, map_err |-> FALSE,
               before |-> InitConfig, urls_before |-> [n \in RemoteNames |-> NoUrl]]

\* One remote command has run on the text, and beside it on the map.
ConfigRan(op, name, url, res, map_res) ==
    /\ fin' = [content |-> res.content, urls |-> map_res.urls]
    /\ fout' = [op |-> op, name |-> name, url |-> url, err |-> res.err,
                map_err |-> map_res.err, before |-> fin.content, urls_before |-> fin.urls]
    /\ UNCHANGED repoVars

RemoteAdd ==
    \E name \in RemoteNames, url \in ConfigUrls :
        ConfigRan("add", name, url, add_remote(fin.content, name, url),
                  MapAdd(fin.urls, name, url))

RemoteSetUrl ==
    \E name \in RemoteNames, url \in ConfigUrls :
        ConfigRan("set-url", name, url, set_remote_url(fin.content, name, url),
                  MapSetUrl(fin.urls, name, url))

RemoteRemove ==
    \E name \in RemoteNames :
        ConfigRan("remove", name, NoUrl, remove_remote(fin.content, name),
                  MapRemove(fin.urls, name))

NextConfig == RemoteAdd \/ RemoteSetUrl \/ RemoteRemove

SpecConfig == InitConfigSpec /\ [][NextConfig]_vars

-----------------------------------------------------------------------------
(* Properties of the three-way merge (SpecMerge) *)

\* C4: a path changed on one side only (the other side's state equals
\* base's, an absent entry included) takes the changed side's state - its
\* entry, or absence when it deleted the path - with no conflict notice.
C4_OneSidedChangeWins ==
    fout.done =>
        \A p \in Paths :
            /\ (fin.ours[p] = fin.base[p] /\ fin.theirs[p] # fin.base[p])
                  => (fout.merged.entries[p] = fin.theirs[p] /\ p \notin fout.merged.notices)
            /\ (fin.theirs[p] = fin.base[p] /\ fin.ours[p] # fin.base[p])
                  => (fout.merged.entries[p] = fin.ours[p] /\ p \notin fout.merged.notices)

\* C4's case: ours modified x, theirs deleted y, base had both.
C4_Witness ==
    /\ fout.done
    /\ fin.base["x"] # None /\ fin.base["y"] # None
    /\ fin.theirs["x"] = fin.base["x"] /\ fin.ours["x"] \notin {None, fin.base["x"]}
    /\ fin.ours["y"] = fin.base["y"] /\ fin.theirs["y"] = None
    /\ fout.merged.entries["x"] = fin.ours["x"] /\ fout.merged.entries["y"] = None

\* C5: merging (base, t, t) yields t's path -> hash mapping and no conflict
\* notice.
C5_MergeIdempotent ==
    (fout.done /\ fin.ours = fin.theirs) =>
        (fout.merged.entries = fin.ours /\ fout.merged.notices = {})

\* C5's case: both sides hold the same tree, which differs from base.
C5_Witness ==
    /\ fout.done
    /\ fin.ours = fin.theirs
    /\ \A p \in Paths : fin.ours[p] # fin.base[p]
    /\ fout.merged.entries = fin.ours

\* C6: whenever merging (base, ours, theirs) prints no conflict notice,
\* merging (base, theirs, ours) yields the same path -> hash mapping.
C6_MergeSymmetric ==
    (fout.done /\ fout.merged.notices = {}) =>
        fout.swapped.entries = fout.merged.entries

\* The path's case is one the match has no arm of its own for: added on
\* both sides, deleted on one side and modified on the other, modified to
\* the same hash on both sides, or deleted on both sides.
FallbackCase(b, o, t) ==
    \/ b = None /\ o # None /\ t # None
    \/ b # None /\ o = None /\ t \notin {None, b}
    \/ b # None /\ t = None /\ o \notin {None, b}
    \/ b # None /\ o # None /\ o = t /\ o # b
    \/ b # None /\ o = None /\ t = None

\* C30: a path in a fallback case takes ours' entry if ours has one, else
\* theirs' entry if theirs has one, else no entry, and gets no conflict
\* notice.
C30_FallbackRow ==
    fout.done =>
        \A p \in Paths :
            FallbackCase(fin.base[p], fin.ours[p], fin.theirs[p])
                => /\ fout.merged.entries[p]
                        = IF fin.ours[p] # None THEN fin.ours[p] ELSE fin.theirs[p]
                   /\ p \notin fout.merged.notices

\* C30's case: x is added on both sides with different hashes, y is deleted
\* by ours and modified by theirs.
C30_Witness ==
    /\ fout.done
    /\ fin.base["x"] = None /\ fin.ours["x"] # None /\ fin.theirs["x"] \notin {None, fin.ours["x"]}
    /\ fin.base["y"] # None /\ fin.ours["y"] = None /\ fin.theirs["y"] \notin {None, fin.base["y"]}
    /\ fout.merged.entries["x"] = fin.ours["x"]
    /\ fout.merged.entries["y"] = fin.theirs["y"]

-----------------------------------------------------------------------------
(* Properties of the commit-graph walks (SpecGraph) *)

CommonAncestors(store, x, y) == AncestorsOf(store, x) \cap AncestorsOf(store, y)

\* C7: find_common_ancestor(x, y) is the deepest common ancestor (every
\* common ancestor is an ancestor of it), is x when x is an ancestor of y
\* and y when y is an ancestor of x, and is None exactly when the two
\* parent chains share no commit.
C7_LcaCorrect ==
    fout.done =>
        LET store == commits["local"]
            common == CommonAncestors(store, fin.x, fin.y)
        IN  /\ ~fout.lca.err
            /\ (fout.lca.val = None) <=> (common = {})
            /\ common # {} =>
                  /\ fout.lca.val \in common
                  /\ \A c \in common : IsAncestorOf(store, c, fout.lca.val)
            /\ IsAncestorOf(store, fin.x, fin.y) => fout.lca.val = fin.x
            /\ IsAncestorOf(store, fin.y, fin.x) => fout.lca.val = fin.y

\* C7's case: two diverged commits whose common ancestors are a chain of
\* two, the deeper of which is returned.
C7_Witness ==
    /\ fout.done
    /\ fout.lca.val \notin {None, fin.x, fin.y}
    /\ Cardinality(CommonAncestors(commits["local"], fin.x, fin.y)) = 2

\* C8: is_ancestor(a, d) is true iff a is reachable from d by zero or more
\* parent steps and false otherwise; it is transitive; the copies in
\* merge.rs and pull.rs return the same result.
C8_IsAncestor ==
    fout.done =>
        LET store == commits["local"]
        IN  /\ ~fout.anc.err
            /\ fout.anc.val = IsAncestorOf(store, fin.x, fin.y)
            /\ fout.pull_anc = fout.anc
            /\ (fout.anc.val /\ fout.anc_yz.val) => fout.anc_xz.val

\* C8's case: x is two parent steps above z, through y.
C8_Witness ==
    /\ fout.done
    /\ fin.x # fin.y /\ fin.y # fin.z
    /\ fout.anc.val /\ fout.anc_yz.val /\ fout.anc_xz.val
    /\ fout.pull_anc.val

-----------------------------------------------------------------------------
(* Properties of merge in a repository (Spec) *)

\* The tree of a stored commit, as a path -> hash mapping.
TreeOf(r, h) == LoadTree(trees[r], LoadCommit(commits[r], h).tree).entries

\* The common ancestor every common ancestor is an ancestor of.
NearestCommon(store, x, y) ==
    CHOOSE c \in CommonAncestors(store, x, y) :
        \A d \in CommonAncestors(store, x, y) : IsAncestorOf(store, d, c)

\* merge(X) is run in repository r on two distinct branches that both have
\* a tip, by the step that is being taken.
MergeRuns(r, X) ==
    /\ last'.op = "merge" /\ last'.repo = r /\ last'.branch = X
    /\ HEAD[r] # X
    /\ heads[r][HEAD[r]] # None /\ heads[r][X] # None

\* merge(X) is run in r while the current tip is not an ancestor of X's tip
\* and the two tips have a common ancestor.
ThreeWayRuns(r, X) ==
    /\ MergeRuns(r, X)
    /\ ~IsAncestorOf(commits[r], heads[r][HEAD[r]], heads[r][X])
    /\ CommonAncestors(commits[r], heads[r][HEAD[r]], heads[r][X]) # {}

\* The path -> hash mapping the three-way merge of the two tips over their
\* nearest common ancestor yields.
MergedEntries(r, X) ==
    merge_entries(TreeOf(r, NearestCommon(commits[r], heads[r][HEAD[r]], heads[r][X])),
                  TreeOf(r, heads[r][HEAD[r]]), TreeOf(r, heads[r][X])).entries

\* C1: merge(X) run while the current tip is a strict ancestor of X's tip
\* sets the current branch ref to X's tip, adds no commit object to the
\* store and leaves X's ref unchanged.
C1_FastForward ==
    [][\A r \in Repos, X \in Branches :
          (/\ MergeRuns(r, X)
           /\ heads[r][HEAD[r]] # heads[r][X]
           /\ IsAncestorOf(commits[r], heads[r][HEAD[r]], heads[r][X]))
          => /\ heads'[r][HEAD[r]] = heads[r][X]
             /\ commits'[r] = commits[r]
             /\ heads'[r][X] = heads[r][X]]_vars

\* C1's case: a fast-forward has moved main onto b's tip, one parent step
\* above main's old tip.
C1_Witness ==
    /\ last.op = "merge" /\ last.outcome = "fast-forward"
    /\ heads[last.repo]["main"] # None
    /\ heads[last.repo]["main"] = heads[last.repo][last.branch]
    /\ LoadCommit(commits[last.repo], heads[last.repo]["main"]).parent # None

\* The commit M is the merge commit of merge(X) in r: its parent is the
\* pre-merge current tip, its tree the merged tree, its message names the
\* two branches; the current branch ref is M afterwards and X's ref is
\* unchanged.
IsMergeCommitOf(M, r, X) ==
    /\ M.parent = heads[r][HEAD[r]]
    /\ HasTree(trees'[r], M.tree)
    /\ LoadTree(trees'[r], M.tree).entries = MergedEntries(r, X)
    /\ M.message = "Merge branch '" \o X \o "' into " \o HEAD[r]
    /\ heads'[r][HEAD[r]] = M.hash
    /\ heads'[r][X] = heads[r][X]

\* C2 as stated: a three-way merge stores exactly one new commit, the merge
\* commit.
C2_OneNewCommit ==
    [][\A r \in Repos, X \in Branches :
          ThreeWayRuns(r, X)
          => \E M \in commits'[r] \ commits[r] :
                /\ commits'[r] = commits[r] \cup {M}
                /\ IsMergeCommitOf(M, r, X)]_vars

\* C2, amended: a three-way merge stores the merge commit, which is the only
\* commit the store can gain: it is a new object unless a commit with the
\* same hash was stored before.
C2_MergeCommitStored ==
    [][\A r \in Repos, X \in Branches :
          ThreeWayRuns(r, X)
          => \E M \in commits'[r] :
                /\ commits'[r] = commits[r] \cup {M}
                /\ IsMergeCommitOf(M, r, X)]_vars

\* C2's case: a three-way merge has put the current branch on a commit that
\* carries the merge message and has the diverged tip of main as parent.
C2_Witness ==
    /\ last.op = "merge" /\ last.outcome = "merged"
    /\ LET M == LoadCommit(commits[last.repo], heads[last.repo][HEAD[last.repo]])
       IN  /\ M.message = "Merge branch 'b' into main"
           /\ M.parent = heads["local"]["main"]
           /\ M.tree # LoadCommit(commits[last.repo], M.parent).tree

\* C3: for every path present in base, ours and theirs whose three hashes
\* differ pairwise, the merge prints a conflict notice naming the path, puts
\* ours' entry in the merged tree and completes with a merge commit.
C3_ConflictKeepsOurs ==
    [][\A r \in Repos, X \in Branches, p \in Paths :
          (/\ ThreeWayRuns(r, X)
           /\ LET base == TreeOf(r, NearestCommon(commits[r], heads[r][HEAD[r]],
                                                  heads[r][X]))
                  ours == TreeOf(r, heads[r][HEAD[r]])
                  theirs == TreeOf(r, heads[r][X])
              IN  /\ base[p] # None /\ ours[p] # None /\ theirs[p] # None
                  /\ ours[p] # base[p] /\ theirs[p] # base[p] /\ ours[p] # theirs[p])
          => /\ last'.outcome = "merged"
             /\ p \in last'.notices
             /\ heads'[r][HEAD[r]] \notin {None, heads[r][HEAD[r]]}
             /\ HasCommit(commits'[r], heads'[r][HEAD[r]])
             /\ LET M == LoadCommit(commits'[r], heads'[r][HEAD[r]])
                IN  /\ M.parent = heads[r][HEAD[r]]
                    /\ LoadTree(trees'[r], M.tree).entries[p] = TreeOf(r, heads[r][HEAD[r]])[p]]_vars

\* C3's case: a merge has reported a conflict in x and its commit's tree
\* holds x as the pre-merge tip of main had it.
C3_Witness ==
    /\ last.op = "merge" /\ last.outcome = "merged" /\ "x" \in last.notices
    /\ LET M == LoadCommit(commits[last.repo], heads[last.repo][HEAD[last.repo]])
       IN  /\ M.parent # None
           /\ TreeOf(last.repo, M.hash)["x"] = TreeOf(last.repo, M.parent)["x"]
           /\ TreeOf(last.repo, M.hash)["x"] # TreeOf(last.repo, heads[last.repo]["b"])["x"]

\* C23: merge ends in an error and leaves refs, object store, index and
\* working tree as they were when the named branch is the current branch,
\* when it does not exist, when the current branch has no commit, and when
\* the two tips have no common ancestor.
C23_MergeRejects ==
    [][\A r \in Repos, X \in Branches :
          (last'.op = "merge" /\ last'.repo = r /\ last'.branch = X)
            => /\ (\/ X = HEAD[r]
                   \/ heads[r][X] = None
                   \/ heads[r][HEAD[r]] = None
                   \/ CommonAncestors(commits[r], heads[r][HEAD[r]], heads[r][X]) = {})
                     => /\ last'.outcome \in {"error: merge into itself", "error: no commits",
                                              "error: branch not found",
                                              "error: no common ancestor"}
                        /\ UNCHANGED <<blobs, trees, commits, heads, tracking, HEAD, index, work>>
               /\ X = HEAD[r] => last'.outcome = "error: merge into itself"]_vars

\* A merge of two branches whose histories share no commit has ended in the
\* error.
C23_Witness ==
    /\ last.op = "merge"
    /\ last.outcome = "error: no common ancestor"
    /\ heads[last.repo]["main"] # None /\ heads[last.repo]["b"] # None
    /\ CommonAncestors(commits[last.repo], heads[last.repo]["main"], heads[last.repo]["b"]) = {}

\* C31: merge(X) run while X's tip is a strict ancestor of the current tip
\* changes nothing: no commit is stored and the current branch ref stays.
C31_MergeOfAncestorIsNoOp ==
    [][\A r \in Repos, X \in Branches :
          (/\ last'.op = "merge" /\ last'.repo = r /\ last'.branch = X
           /\ X # HEAD[r]
           /\ heads[r][X] # None /\ heads[r][HEAD[r]] # None
           /\ heads[r][X] # heads[r][HEAD[r]]
           /\ IsAncestorOf(commits[r], heads[r][X], heads[r][HEAD[r]]))
            => /\ commits'[r] = commits[r]
               /\ heads'[r] = heads[r]]_vars

\* C29: after a completed three-way merge every path of the merged tree
\* holds its blob's bytes in the working tree, and every path of ours' tree
\* that the merged tree lacks is gone from the working tree.
C29_WorkTreeAgrees ==
    [][\A r \in Repos :
          (last'.op = "merge" /\ last'.repo = r /\ last'.outcome = "merged")
            => \A p \in Paths :
                  /\ LoadTree(trees'[r], LoadCommit(commits'[r], heads'[r][HEAD[r]]).tree).entries[p]
                        # None
                        => work'[r][p]
                              = blob_content(LoadTree(trees'[r],
                                    LoadCommit(commits'[r], heads'[r][HEAD[r]]).tree).entries[p])
                  /\ (/\ TreeOf(r, heads[r][HEAD[r]])[p] # None
                      /\ LoadTree(trees'[r],
                                  LoadCommit(commits'[r], heads'[r][HEAD[r]]).tree).entries[p] = None)
                        => work'[r][p] = NoFile]_vars

-----------------------------------------------------------------------------
(* Properties of push (SpecPush) *)

\* The repository has uncommitted changes: a tracked file modified or
\* missing, or an untracked file.
HasUncommittedChanges(r) ==
    \E p \in Paths :
        \/ index[r][p] # None /\ work[r][p] = NoFile
        \/ index[r][p] # None /\ work[r][p] # NoFile /\ hash_content(work[r][p]) # index[r][p]
        \/ index[r][p] = None /\ work[r][p] # NoFile

\* Repository q holds every object reachable from commit C of repository r:
\* the commits of C's parent chain, their trees and the trees' blobs.
HoldsReachable(q, r, C) ==
    \A c \in {d \in commits[r] : d.hash \in AncestorsOf(commits[r], C)} :
        /\ c \in commits[q]
        /\ LoadTree(trees[r], c.tree) \in trees[q]
        /\ \A p \in Paths :
              TreeOf(r, c.hash)[p] # None => blob_content(TreeOf(r, c.hash)[p]) \in blobs[q]

\* C9: after a successful push of commit C on branch B to a clean local-path
\* remote, the remote's ref of B is C, the remote's object store holds every
\* object reachable from C, and the remote's working tree holds exactly the
\* files of C's tree with their blobs' bytes.
C9_RemoteParity ==
    (last.op = "push" /\ last.outcome = "pushed" /\ ~last.dirty) =>
        LET q == config[last.repo][last.name]
            C == heads[last.repo][last.branch]
        IN  /\ heads[q][last.branch] = C
            /\ HoldsReachable(q, last.repo, C)
            /\ \A p \in Paths :
                  work[q][p] = IF TreeOf(last.repo, C)[p] = None THEN NoFile
                               ELSE blob_content(TreeOf(last.repo, C)[p])

\* C9's case: a push to a clean remote whose working tree held y has
\* replaced it by a tree without y.
C9_Witness ==
    /\ last.op = "push" /\ last.outcome = "pushed" /\ ~last.dirty
    /\ heads["remote"]["main"] # None /\ heads["remote"]["b"] # None
    /\ heads["remote"]["main"] # heads["remote"]["b"]
    /\ work["remote"]["y"] = NoFile
    /\ \E br \in Branches : TreeOf("remote", heads["remote"][br])["y"] # None

Clean(idx, wk) ==
    \A p \in Paths :
        IF idx[p] = None THEN wk[p] = NoFile
        ELSE wk[p] # NoFile /\ hash_content(wk[p]) = idx[p]

\* The files are exactly those of the tree's entries, with their bytes.
MatchesTree(wk, entries) ==
    \A p \in Paths :
        wk[p] = IF entries[p] = None THEN NoFile ELSE blob_content(entries[p])

\* C37: a push that finds the remote clean rewrites its working tree and
\* index from the pushed commit C and leaves it clean by the same check,
\* its index being the files of C's tree; so over pushes with no edit in
\* between every push rewrites the working tree, and the remote's working
\* tree matches the tip of the remote's branch.
C37_PushPreservesClean ==
    [][\A q \in Repos :
          (/\ last'.op = "push" /\ last'.outcome = "pushed"
           /\ config[last'.repo][last'.name] = q
           /\ Clean(index[q], work[q]))
          => /\ Clean(index'[q], work'[q])
             /\ index'[q] = LoadTree(trees'[q],
                                LoadCommit(commits'[q], heads'[q][last'.branch]).tree).entries
             /\ MatchesTree(work'[q], index'[q])
             /\ heads'[q][HEAD'[q]] # None
                  => MatchesTree(work'[q],
                                 LoadTree(trees'[q],
                                     LoadCommit(commits'[q], heads'[q][HEAD'[q]]).tree).entries)]_vars

-----------------------------------------------------------------------------
(* Properties of stash (SpecStash) *)

\* A stash command of the given kind has just run to the given outcome.
StashRan(op, outcome) == last.op = op /\ last.outcome = outcome

WithoutEntry(before, n, after) ==
    /\ Len(after) = Len(before) - 1
    /\ \A i \in 1 .. Len(after) : after[i] = IF i <= n THEN before[i] ELSE before[i + 1]

C18_StashPop ==
    [][last'.op = "stash pop"
          => \/ /\ last'.outcome = "popped"
                /\ last'.n < Len(stash[last'.repo])
                /\ work'[last'.repo]
                     = write_tree_files(work[last'.repo],
                          LoadTree(trees[last'.repo],
                                   stash[last'.repo][last'.n + 1].working_tree).entries)
                /\ index'[last'.repo]
                     = LoadTree(trees[last'.repo],
                                stash[last'.repo][last'.n + 1].index_tree).entries
                /\ WithoutEntry(stash[last'.repo], last'.n, stash'[last'.repo])
             \/ /\ last'.outcome # "popped"
                /\ stash' = stash]_vars

\* Entry 1 of a list of two entries has been popped: its working tree differs
\* from its index tree and the index it restored is not empty.
C18_Witness ==
    /\ StashRan("stash pop", "popped")
    /\ last.n = 1
    /\ Len(stash[last.repo]) = 1
    /\ stash[last.repo][1].working_tree # stash[last.repo][1].index_tree
    /\ \E p \in Paths : index[last.repo][p] # None

\* C24: stash pop, stash drop and stash show with an index at or past the
\* end of the stash list (any index on an empty list) end in an error and
\* leave the stash list, the index and the working tree as they were.
C24_StashIndexRejected ==
    [][\A r \in Repos :
          (/\ last'.op \in {"stash pop", "stash drop", "stash show"}
           /\ last'.repo = r
           /\ last'.n >= Len(stash[r]))
            => /\ last'.outcome = "error: invalid index"
               /\ UNCHANGED <<stash, index, work>>]_vars

\* A drop past the end of a list that holds an entry has been refused.
C24_Witness ==
    /\ last.op = "stash drop"
    /\ last.outcome = "error: invalid index"
    /\ Len(stash[last.repo]) > 0
    /\ last.n >= Len(stash[last.repo])

\* C35: stash push with an empty index is a no-op even when the working
\* tree contains files: no stash entry is added, no object is stored, and
\* the index and every working-tree file are unchanged.
C35_EmptyIndexPushIsNoOp ==
    [][\A r \in Repos :
          (last'.op = "stash push" /\ last'.repo = r /\ Keys(index[r]) = {})
            => /\ last'.outcome = "no local changes"
               /\ stash'[r] = stash[r]
               /\ blobs'[r] = blobs[r] /\ trees'[r] = trees[r] /\ commits'[r] = commits[r]
               /\ index'[r] = index[r]
               /\ work'[r] = work[r]]_vars

\* A push that saved nothing in a working tree that holds a file.
C35_Witness ==
    /\ last.op = "stash push" /\ last.outcome = "no local changes"
    /\ Keys(index[last.repo]) = {}
    /\ \E p \in Paths : work[last.repo][p] # NoFile

-----------------------------------------------------------------------------
(* Properties of diff (SpecDiff) *)

\* The positions at which a maximal run of non-Equal ops starts.
RunStarts(d) == {i \in 1 .. Len(d) : d[i] # "Equal" /\ (i = 1 \/ d[i - 1] = "Equal")}

\* The ops of the run that starts at position i.
RunOf(d, i) == {k \in i .. Len(d) : \A m \in i .. k : d[m] # "Equal"}

\* The number of old (new) lines the ops before position k consume.
OldBefore(d, k) == Cardinality({m \in 1 .. (k - 1) : d[m] \in {"Delete", "Equal"}})

NewBefore(d, k) == Cardinality({m \in 1 .. (k - 1) : d[m] \in {"Insert", "Equal"}})

\* Hunk h is the rendering of the run of d that starts at position i.
RendersRun(h, d, o, n, i) ==
    /\ h.old_count = Cardinality({k \in RunOf(d, i) : d[k] = "Delete"})
    /\ h.new_count = Cardinality({k \in RunOf(d, i) : d[k] = "Insert"})
    /\ h.old_start = 1 + OldBefore(d, i)
    /\ h.new_start = 1 + NewBefore(d, i)
    /\ Len(h.body) = Cardinality(RunOf(d, i))
    /\ \A k \in RunOf(d, i) :
          IF d[k] = "Delete"
              THEN /\ 1 + OldBefore(d, k) \in 1 .. Len(o)
                   /\ h.body[k - i + 1] = <<"-", o[1 + OldBefore(d, k)]>>
              ELSE /\ 1 + NewBefore(d, k) \in 1 .. Len(n)
                   /\ h.body[k - i + 1] = <<"+", n[1 + NewBefore(d, k)]>>

\* C33: the renderer emits one hunk per maximal run of non-Equal ops, in
\* order; its header counts the run's Delete ops and Insert ops and starts
\* at 1 + the old and new lines consumed before the run, and every printed
\* line is the old or new line at its counted position.
C33_HunkHeaders ==
    fout.done =>
        /\ Len(fout.hunks) = Cardinality(RunStarts(compute_diff(lines(fin.old), lines(fin.new))))
        /\ \A i \in RunStarts(compute_diff(lines(fin.old), lines(fin.new))) :
              RendersRun(fout.hunks[Cardinality({s \in RunStarts(compute_diff(lines(fin.old),
                                                                             lines(fin.new))) :
                                                   s <= i})],
                         compute_diff(lines(fin.old), lines(fin.new)),
                         lines(fin.old), lines(fin.new), i)

\* Two hunks were rendered, the second one past the first old line.
C33_Witness ==
    /\ fout.done
    /\ Len(fout.hunks) = 2
    /\ fout.hunks[2].old_start > 1
    /\ fout.hunks[1].old_count + fout.hunks[1].new_count > 0

\* The old lines are the new lines but for line k, which is replaced by a
\* line that, like the line it replaces, occurs nowhere else.
ReplacedAt(o, n, k) ==
    /\ Len(o) = Len(n) /\ k \in 1 .. Len(o)
    /\ o[k] # n[k]
    /\ \A i \in (1 .. Len(o)) \ {k} : o[i] = n[i] /\ o[i] # o[k] /\ o[i] # n[k]

\* C32: the tie-break keeps deletions earlier than insertions: the edit
\* sequence of a replaced line is Equal for the lines before it, the Delete
\* of the old line, the Insert of the new line and Equal for the lines after.
C32_DeleteBeforeInsert ==
    fout.done =>
        \A k \in 1 .. Len(lines(fin.old)) :
            ReplacedAt(lines(fin.old), lines(fin.new), k)
                => compute_diff(lines(fin.old), lines(fin.new))
                     = [i \in 1 .. (Len(lines(fin.old)) + 1) |->
                          IF i = k THEN "Delete" ELSE IF i = k + 1 THEN "Insert" ELSE "Equal"]

\* C19: for any old content A and new content B, applying the rendered
\* hunks to A - at each hunk, from old line old_start, removing the '-'
\* lines and inserting the '+' lines - yields B.
C19_DiffRoundTrip == fout.done => unlines(fout.applied) = fin.new

\* The line sequences do round-trip: the applied lines are the new content's
\* lines.
DiffLinesRoundTrip == fout.done => fout.applied = lines(fin.new)

-----------------------------------------------------------------------------
(* Properties of commit creation (Spec, SpecStash) *)

\* hash(tree || parent || author || message) of a stored commit.
FourFieldHash(c) == hash_content(<<c.tree, c.parent, c.author \o c.message>>)

\* C20: every stored commit's hash is the hash of its tree, parent, author
\* and message, the timestamp not contributing, so that two commits with the
\* same four fields have the same hash.
C20_CommitIdentity ==
    \A r \in Repos : \A c \in commits[r] :
        /\ c.hash = FourFieldHash(c)
        /\ \A d \in commits[r] : FourFieldHash(c) = FourFieldHash(d) => c.hash = d.hash

-----------------------------------------------------------------------------
(* Properties of the object stores (SpecObjects) *)

\* C11: across push, fetch, pull, merge and stash no object of a
\* repository's store is deleted and none changes its bytes; a copy between
\* stores leaves every object the destination already holds as it is.
C11_ObjectsImmutable ==
    [][\A r \in Repos :
          /\ blobs[r] \subseteq blobs'[r]
          /\ trees[r] \subseteq trees'[r]
          /\ commits[r] \subseteq commits'[r]]_vars

\* A pull from origin has copied objects into a store that has stashed, and
\* the two stores hold a commit of one hash with different bytes.
C11_Witness ==
    /\ last.op = "pull"
    /\ last.name = "origin"
    /\ Len(stash["local"]) > 0
    /\ \E c \in commits["local"], d \in commits["remote"] : c.hash = d.hash /\ c # d
    /\ \E c \in commits["local"] : c.message = "remote"

-----------------------------------------------------------------------------
(* Properties of fetch, pull and push to a remote (SpecSync) *)

\* The outcomes that surface an error to the caller.
ErrorOutcomes ==
    {"error: remote not found", "error: no commits", "error: not found", "error: checkout"}

\* Every object file of store q is a file of store r (files are named by
\* hash).
HoldsFilesOf(bq, tq, cq, br, tr, cr) ==
    /\ bq \subseteq br
    /\ \A t \in tq : HasTree(tr, t.hash)
    /\ \A c \in cq : HasCommit(cr, c.hash)

\* C12: push and fetch to a remote whose URL is not a filesystem path end
\* in an error and write no object and no ref in any repository.
C12_NetworkRemoteRejected ==
    [][(last'.op \in {"push", "fetch"} /\ config[last'.repo][last'.name] = NetworkUrl)
          => /\ last'.outcome \in ErrorOutcomes
             /\ UNCHANGED <<blobs, trees, commits, heads, tracking>>]_vars

\* C13: a fetch of branch B from the local-path remote R leaves every object
\* file of the remote in the local store and, when the remote has B, the
\* tracking ref R/B at the remote's tip of B; the local branches, HEAD, index
\* and working tree, and all of the remote repository, are unchanged.
C13_FetchFrame ==
    [][(last'.op = "fetch" /\ last'.outcome = "fetched")
          => /\ HoldsFilesOf(blobs[config[last'.repo][last'.name]],
                             trees[config[last'.repo][last'.name]],
                             commits[config[last'.repo][last'.name]],
                             blobs'[last'.repo], trees'[last'.repo], commits'[last'.repo])
             /\ heads[config[last'.repo][last'.name]][last'.branch] # None
                   => tracking'[last'.repo][last'.name][last'.branch]
                         = heads[config[last'.repo][last'.name]][last'.branch]
             /\ UNCHANGED <<heads, HEAD, index, work, stash, config>>
             /\ \A q \in Repos \ {last'.repo} :
                   /\ blobs'[q] = blobs[q] /\ trees'[q] = trees[q] /\ commits'[q] = commits[q]
                   /\ tracking'[q] = tracking[q]]_vars

\* A fetch has copied the remote's commit R and set origin/main to it while
\* the local main stays behind.
C13_Witness ==
    /\ last.op = "fetch"
    /\ last.outcome = "fetched"
    /\ heads["remote"]["main"] # None
    /\ tracking["local"]["origin"]["main"] = heads["remote"]["main"]
    /\ heads["local"]["main"] # heads["remote"]["main"]
    /\ \E c \in commits["local"] : c.message = "remote"

\* C14: pull fetches; then a local tip that is a strict ancestor of the
\* fetched tip R/B is moved to it and no commit is created; a local tip that
\* is not an ancestor of it stays, nothing being merged; equal tips change
\* nothing.
C14_PullFastForwardOnly ==
    [][(last'.op = "pull" /\ last'.outcome # "error: remote not found"
           /\ heads[last'.repo][last'.branch] # None
           /\ tracking'[last'.repo][last'.name][last'.branch] # None)
          => /\ path_exists(config[last'.repo][last'.name])
                   => HoldsFilesOf(blobs[config[last'.repo][last'.name]],
                                   trees[config[last'.repo][last'.name]],
                                   commits[config[last'.repo][last'.name]],
                                   blobs'[last'.repo], trees'[last'.repo], commits'[last'.repo])
             /\ \A c \in commits'[last'.repo] \ commits[last'.repo] :
                   /\ path_exists(config[last'.repo][last'.name])
                   /\ c \in commits[config[last'.repo][last'.name]]
             /\ IF heads[last'.repo][last'.branch] = tracking'[last'.repo][last'.name][last'.branch]
                  THEN UNCHANGED <<heads, HEAD, index, work>>
                ELSE IF IsAncestorOf(commits'[last'.repo], heads[last'.repo][last'.branch],
                                     tracking'[last'.repo][last'.name][last'.branch])
                  THEN heads'[last'.repo][last'.branch]
                          = tracking'[last'.repo][last'.name][last'.branch]
                ELSE UNCHANGED <<heads, HEAD, index, work>>]_vars

\* A pull has moved the local main from O onto the remote's R.
C14_Witness ==
    /\ last.op = "pull"
    /\ last.outcome = "fast-forward"
    /\ heads["local"]["main"] = heads["remote"]["main"]
    /\ \E c \in commits["local"] : c.hash = heads["local"]["main"] /\ c.message = "remote"

\* A pull has left the local main where it was: the fetched tip is on
\* another line of history.
PullRefused ==
    /\ last.op = "pull"
    /\ last.outcome = "not fast-forward"
    /\ tracking["local"]["origin"]["main"] = heads["remote"]["main"]
    /\ ~IsAncestorOf(commits["local"], heads["local"]["main"], heads["remote"]["main"])

-----------------------------------------------------------------------------
(* Properties of the remote names (SpecRemotes) *)

\* C27: after a successful push of commit C on branch B to a local-path
\* remote configured under the name R, the pushing repository's tracking ref
\* of R for B equals C, whatever the name R, and no tracking ref of another
\* remote is written.
C27_TrackingUnderRemoteName ==
    [][\A r \in Repos, R \in RemoteNames, B \in Branches :
          (/\ last'.op = "push" /\ last'.outcome = "pushed"
           /\ last'.repo = r /\ last'.name = R /\ last'.branch = B
           /\ path_exists(config[r][R]))
            => /\ tracking'[r][R][B] = heads[r][B]
               /\ \A R2 \in RemoteNames \ {R} : tracking'[r][R2] = tracking[r][R2]]_vars

-----------------------------------------------------------------------------
(* Properties of the walks over a store with lost objects (SpecBroken) *)

\* The hashes from y up to c on y's parent chain, both included.
Between(store, y, c) == AncestorsOf(store, y) \ (AncestorsOf(store, c) \ {c})

\* The stored commits on h's parent chain whose recorded parent is not in
\* the store.
Dangling(store, h) ==
    {c \in store : /\ c.hash \in AncestorsOf(store, h)
                   /\ c.parent # None
                   /\ ~HasCommit(store, c.parent)}

\* C26: is_ancestor and find_common_ancestor end in the NotFound error
\* whenever a commit on the chain they walk records a parent that is not in
\* the object store: for is_ancestor(x, y) a commit the walk from y comes to
\* before it comes to x, for find_common_ancestor(x, y) a commit of x's chain
\* or a commit the walk from y comes to before a commit of x's chain.
C26_MissingParentIsNotFound ==
    fout.done =>
        /\ (\E c \in Dangling(commits["local"], fin.y) :
                fin.x \notin Between(commits["local"], fin.y, c.hash))
              => fout.anc.err
        /\ (\/ Dangling(commits["local"], fin.x) # {}
            \/ \E c \in Dangling(commits["local"], fin.y) :
                  Between(commits["local"], fin.y, c.hash)
                      \cap AncestorsOf(commits["local"], fin.x) = {})
              => fout.lca.err

-----------------------------------------------------------------------------
(* Properties of cut-off commands (SpecCut) *)

\* C22: after every write of a merge, push, fetch, pull or stash push - so
\* also when the command is cut off there - every branch ref and every
\* tracking ref names a commit of its repository's store, and every entry of
\* the stash list names trees of the store.
C22_RefsNameStoredObjects ==
    \A r \in Repos :
        /\ \A b \in Branches : heads[r][b] # None => HasCommit(commits[r], heads[r][b])
        /\ \A n \in RemoteNames, b \in Branches :
              tracking[r][n][b] # None => HasCommit(commits[r], tracking[r][n][b])
        /\ \A i \in 1 .. Len(stash[r]) :
              /\ HasTree(trees[r], stash[r][i].index_tree)
              /\ HasTree(trees[r], stash[r][i].working_tree)

\* A push was cut off after the remote's branch ref was written, a ref that
\* names a commit the remote did not have before.
C22_Witness ==
    /\ fout.done
    /\ last.op = "push" /\ last.outcome = "cut off"
    /\ heads["remote"][last.branch] = heads["local"][last.branch]
    /\ tracking["local"]["origin"][last.branch] # heads["local"][last.branch]
    /\ \E c \in commits["remote"] : c.message = "theirs"

\* C36: stash push removes no working-tree file and does not empty the
\* index before the new entry is persisted: whenever a stash push, cut off
\* at any of its writes, has deleted a file or cleared the index, the stash
\* list holds at index 0 a new entry whose working_tree and index_tree are
\* in the object store and hold the files and the index as they were, with
\* every file's bytes stored as a blob.
C36_StashSavedBeforeCleared ==
    [][\A r \in Repos :
          (/\ last'.op = "stash push" /\ last'.repo = r
           /\ work'[r] # work[r] \/ index'[r] # index[r])
            => /\ Len(stash'[r]) = Len(stash[r]) + 1
               /\ HasTree(trees'[r], stash'[r][1].working_tree)
               /\ HasTree(trees'[r], stash'[r][1].index_tree)
               /\ LoadTree(trees'[r], stash'[r][1].working_tree).entries
                    = [p \in Paths |-> IF work[r][p] # NoFile
                                         THEN hash_content(work[r][p]) ELSE None]
               /\ LoadTree(trees'[r], stash'[r][1].index_tree).entries = index[r]
               /\ \A p \in Paths : work[r][p] # NoFile => work[r][p] \in blobs'[r]]_vars

\* A stash push cut off after it cleared the working tree and before it
\* emptied the index.
C36_Witness ==
    /\ fout.done /\ last.op = "stash push"
    /\ \A p \in Paths : work["local"][p] = NoFile
    /\ Keys(index["local"]) # {}
    /\ Len(stash["local"]) = 1

-----------------------------------------------------------------------------
(* Properties of concurrent copies (SpecCopy) *)

\* Both invocations have come to the end of their source.
CopiesDone == \A i \in Copiers : fout.todo[i] = {} /\ fout.cur[i] = None

\* C25: when two copies interleaved at single existence tests and single
\* file copies have both ended, every object of either source is in the
\* destination with the bytes of its source, and every object that was in
\* the destination beforehand is there with the bytes it had.
C25_ConcurrentCopySafe ==
    CopiesDone =>
        /\ \A i \in Copiers : fin.src[i] \subseteq fout.dst
        /\ fin.before \subseteq fout.dst

-----------------------------------------------------------------------------
(* Properties of clone (SpecClone) *)

\* C28: right after a successful clone of a repository whose main has a
\* commit the clone is clean by the push-side check: its index lists exactly
\* the files checked out from main's tree, with their hashes, and there is
\* no untracked, modified or missing file.
C28_CloneIsClean ==
    [][\A r, q \in Repos :
          (/\ last'.op = "clone" /\ last'.outcome = "cloned"
           /\ last'.repo = r /\ last'.name = q
           /\ heads[q]["main"] # None)
            => /\ index'[r] = TreeOf(q, heads[q]["main"])
               /\ \A p \in Paths :
                     work'[r][p] = IF index'[r][p] # None THEN blob_content(index'[r][p])
                                   ELSE NoFile
               /\ ~check_for_uncommitted_changes(index'[r], work'[r])]_vars

-----------------------------------------------------------------------------
(* Properties of the working-directory walks (SpecWalk) *)

\* The file of the working directory that an index entry is the entry of.
EntryFile(key) == {f \in WalkFiles : to_string_lossy(f) = key}

\* The regular files under work_root outside meta_root.
OutsideMeta(files) == {f \in WalkFiles : files[f] # NoFile /\ f[1] # <<".mini_git">>}

\* C34: the push-side check reports uncommitted changes iff some index
\* entry's file is missing from the working tree, or some index entry's
\* file hashes to another value than the entry's, or some regular file
\* under work_root outside meta_root has no index entry; files under
\* meta_root never make the repository dirty.
C34_PushCheckIffDirty ==
    fout.op = "check" =>
        (fout.dirty <=>
            \/ \E key \in Keys(fin.index) :
                  \A f \in EntryFile(key) : fin.files[f] = NoFile
            \/ \E key \in Keys(fin.index) :
                  \E f \in EntryFile(key) :
                      fin.files[f] # NoFile /\ hash_content(fin.files[f]) # fin.index[key]
            \/ \E f \in OutsideMeta(fin.files) : to_string_lossy(f) \notin Keys(fin.index))

\* A relative path that lies beneath meta_root.
BeneathMeta(key) == Len(key) >= 2 /\ key[1] = ".mini_git" /\ key[2] = "/"

\* C40: no path beneath meta_root appears in a tree built from the working
\* directory: the snapshot of stash push holds exactly the regular files
\* under work_root outside meta_root, each under its own forward-slash
\* relative path with the hash of its bytes, and clearing the working tree
\* leaves every file of meta_root as it was.
C40_SnapshotOutsideMeta ==
    /\ fout.op = "snapshot" =>
          /\ \A key \in Keys(fout.entries) : ~BeneathMeta(key)
          /\ Cardinality(Keys(fout.entries)) = Cardinality(OutsideMeta(fin.files))
          /\ \A f \in OutsideMeta(fin.files) :
                fout.entries[relative_path(f)] = hash_content(fin.files[f])
    /\ fout.op = "clear" =>
          \A f \in WalkFiles : f[1] = <<".mini_git">> => fout.files[f] = fin.files[f]

-----------------------------------------------------------------------------
(* Properties of the remote configuration (SpecConfig) *)

\* C38: the remote configuration behaves as the map name -> url under any
\* sequence of remote add, set-url and remove: a command fails on the text
\* exactly when it fails on the map, an add of an existing name among them,
\* and a failed command leaves the text as it was; the url that push and
\* fetch resolve for a name is the one the map holds, the one last given
\* by add or set-url; resolving a name the map does not hold, a removed one
\* among them, is the not-found error; and a command on one remote leaves
\* the url resolved for any other remote as it was.
C38_ConfigIsAMap ==
    /\ fout.err = fout.map_err
    /\ fout.err => fin.content = fout.before
    /\ \A n \in RemoteNames :
          /\ get_remote_url_of_text(fin.content, n)
               = IF fin.urls[n] = NoUrl THEN [err |-> TRUE, val |-> <<>>]
                 ELSE [err |-> FALSE, val |-> url_pieces(fin.urls[n])]
          /\ n # fout.name
               => get_remote_url_of_text(fin.content, n)
                    = get_remote_url_of_text(fout.before, n)
    /\ (fout.op = "add" /\ fout.urls_before[fout.name] # NoUrl) => fout.err
    /\ (fout.op \in {"add", "set-url"} /\ ~fout.err)
          => get_remote_url_of_text(fin.content, fout.name).val = url_pieces(fout.url)
    /\ (fout.op = "remove" /\ ~fout.err)
          => get_remote_url_of_text(fin.content, fout.name).err

-----------------------------------------------------------------------------
(* Properties of tree creation (Spec) *)

\* C21: two stored trees with the same path -> entry mapping, whichever
\* command and run built them, have the same serialization and so the same
\* hash.
C21_TreeIdentity ==
    \A r, q \in Repos : \A t \in trees[r], u \in trees[q] :
        t.entries = u.entries => t.hash = u.hash

====
